---- MODULE Spec2Model ----
(***************************************************************************)
(* git-review-blame: blame parsing, remote resolution, review clients and  *)
(* the caching correlation loop of runGitReviewBlame.                      *)
(*                                                                         *)
(* Go strings are modelled as sequences of one-character strings, so that  *)
(* slicing, prefix tests, trimming and splitting are computed, not assumed.*)
(* A nil pointer is the empty sequence Nil, a non-nil pointer to v is <<v>>.*)
(***************************************************************************)
EXTENDS Integers, Sequences, FiniteSets, TLC

VARIABLES
    \* ---- correlation loop of runGitReviewBlame ----
    variant,             \* which ReviewClient the factory built
    blameLines,          \* []BlameLine handed to the loop
    idx,                 \* position of the range loop (next line to process)
    commitCache,         \* map[string]*PRApprovalInfo
    linesWithApprovals,  \* []BlameLineWithApproval built so far
    fetchCalls,          \* log of the client.GetPRApprovalInfo calls issued
    pc,                  \* "correlate" | "done"; "format" | "formatted"; "idle"
    runs,                \* how many times the loop was entered on this cache
    prevOutput,          \* result of the previous pass over the same cache
    formatted,           \* Nil, or <<s>> with s the text FormatOutput returned
    \* ---- parseGitBlameOutput ----
    blameText,           \* the blame text and how it was put together
    parsed,              \* Nil before the call, <<[lines, err]>> after it
    \* ---- parseRepositoryURL ----
    remote,              \* the remote string and how it was put together
    resolved,            \* Nil before the call, <<[info, err]>> after it
    \* ---- ClientFactory.CreateClient and the ReviewClient it returns ----
    factoryArgs,         \* Nil, or <<[repoInfo, githubToken, gitlabToken]>>
    client,              \* Nil before CreateClient, <<[val, err]>> after it
    clientCall,          \* Nil, or <<c>> with c the one method call made
    \* ---- OutputFormatter ----
    formatter,           \* Nil before NewOutputFormatter, <<f>> after it
    local,               \* Nil until time.Local is loaded, then <<time zone>>
    \* ---- runGitReviewBlame ----
    args,                \* Nil, or <<[porcelain, showEmail]>>: the flags given
    gitRoot,             \* Nil before FindGitRoot, <<[val, err]>> after it
    stdout               \* the texts printed on standard output, in order

corrVars == <<variant, blameLines, idx, commitCache, linesWithApprovals,
              fetchCalls, pc, runs, prevOutput, formatted>>
parseVars == <<blameText, parsed>>
urlVars == <<remote, resolved>>
clientVars == <<factoryArgs, client, clientCall>>
fmtVars == <<formatter, local>>
mainVars == <<args, gitRoot, stdout>>
vars == <<corrVars, parseVars, urlVars, clientVars, fmtVars, mainVars>>

Nil == <<>>

(***************************************************************************)
(* Bounds of the model.                                                    *)
(***************************************************************************)
MaxLines == 3      \* blame lines handed to the correlation loop
MaxReviews == 2    \* entries in a provider's review / approved_by list

(***************************************************************************)
(* String helpers (package strings).                                       *)
(***************************************************************************)
Slice(s, from, to) == SubSeq(s, from + 1, to)     \* Go s[from:to], 0-based

HasPrefix(s, p) == Len(s) >= Len(p) /\ SubSeq(s, 1, Len(p)) = p

HasSuffix(s, p) == Len(s) >= Len(p) /\ SubSeq(s, Len(s) - Len(p) + 1, Len(s)) = p

TrimPrefix(s, p) == IF HasPrefix(s, p) THEN SubSeq(s, Len(p) + 1, Len(s)) ELSE s

TrimSuffix(s, p) == IF HasSuffix(s, p) THEN SubSeq(s, 1, Len(s) - Len(p)) ELSE s

\* 1-based positions at which sep occurs in s
Occurrences(s, sep) ==
    {i \in 1..(Len(s) - Len(sep) + 1) : SubSeq(s, i, i + Len(sep) - 1) = sep}

Contains(s, sep) == Occurrences(s, sep) # {}

MinOf(S) == CHOOSE x \in S : \A y \in S : x <= y

\* strings.Index: 0-based index of the first occurrence, -1 if there is none
Index(s, sep) == IF Contains(s, sep) THEN MinOf(Occurrences(s, sep)) - 1 ELSE -1

\* A Go string is the sequence of its bytes.  A printable ASCII byte, and
\* the control bytes TLA+ has an escape for, are written as the character; any
\* other byte n is written Byte(n).
HexUpper ==
    <<"0", "1", "2", "3", "4", "5", "6", "7", "8", "9", "A", "B", "C", "D", "E", "F">>

Byte(n) == "\\x" \o HexUpper[(n \div 16) + 1] \o HexUpper[(n % 16) + 1]

HighBytes == {Byte(n) : n \in 128..255}     \* the bytes >= utf8.RuneSelf

ByteValues == [b \in HighBytes |-> CHOOSE n \in 128..255 : Byte(n) = b]

ByteValue(b) == ByteValues[b]

\* b is a byte of the range lo..hi, for 128 <= lo
InRange(b, lo, hi) == b \in HighBytes /\ ByteValue(b) \in lo..hi

\* utf8.DecodeRuneInString(s[i-1:]): the width of the rune that starts at the
\* 1-based position i; an invalid or incomplete encoding is one byte wide.
RuneWidthAt(s, i) ==
    LET n == Len(s)
        cont(k) == k <= n /\ InRange(s[k], 128, 191)
        second(lo, hi) == i + 1 <= n /\ InRange(s[i + 1], lo, hi)
        v == ByteValue(s[i])
    IN IF s[i] \notin HighBytes THEN 1
       ELSE IF v \in 194..223 THEN (IF cont(i + 1) THEN 2 ELSE 1)
       ELSE IF v = 224 THEN (IF second(160, 191) /\ cont(i + 2) THEN 3 ELSE 1)
       ELSE IF v \in (225..236) \cup {238, 239}
            THEN (IF cont(i + 1) /\ cont(i + 2) THEN 3 ELSE 1)
       ELSE IF v = 237 THEN (IF second(128, 159) /\ cont(i + 2) THEN 3 ELSE 1)
       ELSE IF v = 240
            THEN (IF second(144, 191) /\ cont(i + 2) /\ cont(i + 3) THEN 4 ELSE 1)
       ELSE IF v \in 241..243
            THEN (IF cont(i + 1) /\ cont(i + 2) /\ cont(i + 3) THEN 4 ELSE 1)
       ELSE IF v = 244
            THEN (IF second(128, 143) /\ cont(i + 2) /\ cont(i + 3) THEN 4 ELSE 1)
       ELSE 1

\* utf8.RuneCountInString
RECURSIVE RuneCountFrom(_, _)
RuneCountFrom(s, i) ==
    IF i > Len(s) THEN 0 ELSE 1 + RuneCountFrom(s, i + RuneWidthAt(s, i))

RuneCountInString(s) == RuneCountFrom(s, 1)

\* unicode.IsSpace, as the UTF-8 encodings of the runes it accepts: '\t', '\n',
\* '\v', '\f', '\r', ' ', U+0085, U+00A0 and, of the property White_Space,
\* U+1680, U+2000..U+200A, U+2028, U+2029, U+202F, U+205F, U+3000.
WhiteSpace ==
    { <<" ">>, <<"\t">>, <<"\n">>, <<Byte(11)>>, <<"\f">>, <<"\r">>,
      <<Byte(194), Byte(133)>>, <<Byte(194), Byte(160)>>,
      <<Byte(225), Byte(154), Byte(128)>>,
      <<Byte(226), Byte(128), Byte(168)>>, <<Byte(226), Byte(128), Byte(169)>>,
      <<Byte(226), Byte(128), Byte(175)>>, <<Byte(226), Byte(129), Byte(159)>>,
      <<Byte(227), Byte(128), Byte(128)>> }
    \cup { <<Byte(226), Byte(128), Byte(n)>> : n \in 128..138 }

SpaceLeads == { e[1] : e \in WhiteSpace }

\* The width of the white-space rune that starts at position i, 0 when the
\* rune there is not white space.  A white-space encoding is valid UTF-8 and
\* starts with an ASCII or a leading byte, never with a continuation byte, so
\* it decodes as that rune wherever it occurs.
SpaceWidthAt(s, i) ==
    IF s[i] \notin SpaceLeads THEN 0
    ELSE LET ws == { Len(e) : e \in { enc \in WhiteSpace :
                                      /\ i + Len(enc) - 1 <= Len(s)
                                      /\ SubSeq(s, i, i + Len(enc) - 1) = enc } }
         IN IF ws = {} THEN 0 ELSE CHOOSE w \in ws : TRUE

\* utf8.DecodeLastRuneInString: the width of the last rune of s when it is
\* white space, 0 otherwise.
SpaceWidthAtEnd(s) ==
    LET n == Len(s)
        ws == { w \in 1..3 : w <= n /\ SpaceWidthAt(s, n - w + 1) = w }
    IN IF ws = {} THEN 0 ELSE CHOOSE w \in ws : TRUE

\* strings.TrimLeftFunc(s, unicode.IsSpace)
RECURSIVE TrimLeft(_)
TrimLeft(s) ==
    IF s # <<>> /\ SpaceWidthAt(s, 1) > 0
    THEN TrimLeft(SubSeq(s, SpaceWidthAt(s, 1) + 1, Len(s))) ELSE s

\* strings.TrimRightFunc(s, unicode.IsSpace)
RECURSIVE TrimRight(_)
TrimRight(s) ==
    IF s # <<>> /\ SpaceWidthAtEnd(s) > 0
    THEN TrimRight(SubSeq(s, 1, Len(s) - SpaceWidthAtEnd(s))) ELSE s

TrimSpace(s) == TrimRight(TrimLeft(s))

\* strings.Split(s, sep) for a one-character sep: always at least one part
RECURSIVE Split(_, _)
Split(s, sep) ==
    LET i == Index(s, <<sep>>) IN
    IF i = -1 THEN <<s>>
    ELSE <<Slice(s, 0, i)>> \o Split(Slice(s, i + 1, Len(s)), sep)

\* strings.SplitN(s, sep, 2): cut at the first sep only
SplitN2(s, sep) ==
    LET i == Index(s, <<sep>>) IN
    IF i = -1 THEN <<s>>
    ELSE <<Slice(s, 0, i), Slice(s, i + 1, Len(s))>>

\* strings.Fields: the maximal runs of runes that are not white space
RECURSIVE Fields(_)
Fields(s) ==
    LET t == TrimLeft(s) IN
    IF t = <<>> THEN <<>>
    ELSE LET ws == {i \in 1..Len(t) : SpaceWidthAt(t, i) > 0}
             e == IF ws = {} THEN Len(t) ELSE MinOf(ws) - 1
         IN <<SubSeq(t, 1, e)>> \o Fields(SubSeq(t, e + 1, Len(t)))

Repeat(c, n) == [i \in 1..n |-> c]

(***************************************************************************)
(* Review clients: GitHubClient and GitLabClient.                          *)
(*                                                                         *)
(* One HTTP exchange is [fail, status, body].  fail names the step that    *)
(* returns an error: "transport" for httpClient.Do, "read" for io.ReadAll  *)
(* of the body, "json" for json.Unmarshal of a body that is not of the     *)
(* expected shape, "none" when every step succeeds; body is then the       *)
(* decoded JSON value.  A call result is [val, err] with err = "none" on   *)
(* success.                                                                *)
(***************************************************************************)
StatusOK == 200

\* A time.Time is [unix, loc]: the instant in seconds since the epoch and the
\* Location the time is shown in.  encoding/json decodes a timestamp ending
\* in Z into UTC and one ending in an offset into a Location of that offset
\* (time.Local itself when Local has that offset at that instant, which
\* shows the same clock time); time.Unix returns a time in time.Local.
\* A *time.Time is Nil or <<t>>.
UTC == [name |-> "UTC", offset |-> 0]
Local == [name |-> "Local", offset |-> 0]
FixedZone(offset) == [name |-> "", offset |-> offset]

TimeIn(sec, loc) == [unix |-> sec, loc |-> loc]
TimeUnix(sec) == TimeIn(sec, Local)            \* time.Unix(sec, 0)
UnixOf(t) == t.unix                            \* Time.Unix()

Alice == <<"a", "l", "i", "c", "e">>
AliceMail == <<"a", "@", "x", ".", "i", "o">>
Bob == <<"b", "o", "b">>
Carol == <<"c", "a", "r", "o", "l">>
Dev == <<"d", "e", "v">>

\* GitHub: elements of GET /repos/{owner}/{repo}/commits/{sha}/pulls
GitHubPulls ==
    { [Number |-> n, User |-> [Login |-> Dev]] : n \in {7, 12} }

\* GitLab: elements of GET /projects/{path}/repository/commits/{sha}/merge_requests
GitLabMergeRequests ==
    { [IID |-> n, Author |-> [Username |-> Dev]] : n \in {7, 12} }

\* GitHub: elements of GET /repos/{owner}/{repo}/pulls/{number}/reviews
GitHubReviews ==
    { [User |-> [Login |-> Alice, Email |-> AliceMail], State |-> "APPROVED",
       SubmittedAt |-> <<TimeIn(100, UTC)>>],
      [User |-> [Login |-> Bob, Email |-> <<>>], State |-> "APPROVED",
       SubmittedAt |-> <<TimeIn(50, FixedZone(3600))>>],
      [User |-> [Login |-> Carol, Email |-> <<>>], State |-> "COMMENTED",
       SubmittedAt |-> <<TimeIn(200, UTC)>>] }

\* GitLab: elements of approved_by in GET .../merge_requests/{iid}/approvals
GitLabApprovals ==
    { [User |-> [Username |-> Alice, Email |-> AliceMail], CreatedAt |-> <<TimeIn(100, FixedZone(3600))>>],
      [User |-> [Username |-> Bob, Email |-> <<>>], CreatedAt |-> Nil] }

SeqsUpTo(S, n) == UNION { [1..k -> S] : k \in 0..n }

Exchanges(bodies) ==
    { [fail |-> "transport", status |-> 0, body |-> <<>>],
      [fail |-> "none", status |-> 500, body |-> <<>>],
      [fail |-> "read", status |-> StatusOK, body |-> <<>>],
      [fail |-> "json", status |-> StatusOK, body |-> <<>>] }
    \cup { [fail |-> "none", status |-> StatusOK, body |-> b] : b \in bodies }

CommitExchanges(v) ==
    Exchanges(SeqsUpTo(IF v = "GitHub" THEN GitHubPulls ELSE GitLabMergeRequests, 2))

ApprovalExchanges(v) ==
    Exchanges(SeqsUpTo(IF v = "GitHub" THEN GitHubReviews ELSE GitLabApprovals,
                       MaxReviews))

\* The error checks shared by every request of both clients, in the order of
\* the code: the request, the status, reading the body, decoding it.
ExchangeError(x) ==
    IF x.fail = "transport" THEN "transport"
    ELSE IF x.status # StatusOK THEN "api"
    ELSE x.fail

\* GitLabClient.FindPRByCommit: the merge request in PullRequest shape
ConvertMergeRequest(mr) ==
    [Number |-> mr.IID, User |-> [Login |-> mr.Author.Username]]

\* FindPRByCommit taking the last element of the list.
FindPRByCommitLast(v, x) ==
    IF ExchangeError(x) # "none" THEN [val |-> Nil, err |-> ExchangeError(x)]
    ELSE IF Len(x.body) = 0 THEN [val |-> Nil, err |-> "none"]
    ELSE IF v = "GitHub" THEN [val |-> <<x.body[Len(x.body)]>>, err |-> "none"]
    ELSE [val |-> <<ConvertMergeRequest(x.body[Len(x.body)])>>, err |-> "none"]

\* FindPRByCommit: the first element of the list, (nil, nil) for an empty list
FindPRByCommit(v, x) ==
    IF ExchangeError(x) # "none" THEN [val |-> Nil, err |-> ExchangeError(x)]
    ELSE IF Len(x.body) = 0 THEN [val |-> Nil, err |-> "none"]
    ELSE IF v = "GitHub" THEN [val |-> <<x.body[1]>>, err |-> "none"]
    ELSE [val |-> <<ConvertMergeRequest(x.body[1])>>, err |-> "none"]

\* FilterApproved keeping every review that is not pending.
FilterApprovedOrCommented(reviews) ==
    SelectSeq(reviews, LAMBDA r : r.State \in {"APPROVED", "COMMENTED"})

\* GitHubClient.GetPRApprovals: keep the reviews whose State is APPROVED
FilterApproved(reviews) == SelectSeq(reviews, LAMBDA r : r.State = "APPROVED")

\* GitLabClient.GetPRApprovals: every approved_by entry becomes a Review
ConvertApproval(a) ==
    [User |-> [Login |-> a.User.Username, Email |-> a.User.Email],
     State |-> "APPROVED", SubmittedAt |-> a.CreatedAt]

GetPRApprovals(v, x) ==
    IF ExchangeError(x) # "none" THEN [val |-> <<>>, err |-> ExchangeError(x)]
    ELSE IF v = "GitHub" THEN [val |-> FilterApproved(x.body), err |-> "none"]
    ELSE [val |-> [i \in 1..Len(x.body) |-> ConvertApproval(x.body[i])],
          err |-> "none"]

\* The requests a call issues: the commit's pulls / merge_requests list, and
\* the reviews / approvals of PR or MR number n.
CommitRequest == [endpoint |-> "commit", number |-> 0]
ApprovalsRequest(n) == [endpoint |-> "approvals", number |-> n]

\* GetPRApprovalInfo going on to the approvals of number 0 when no PR is found.
GetPRApprovalInfoIgnoresAbsent(v, commitX, approvalsX) ==
    LET pr == FindPRByCommit(v, commitX)
        number == IF pr.val = Nil THEN 0 ELSE pr.val[1].Number
        found == IF pr.val = Nil THEN [Number |-> 0, User |-> [Login |-> <<>>]]
                 ELSE pr.val[1]
    IN
    IF pr.err # "none"
    THEN [val |-> Nil, err |-> pr.err, requests |-> <<CommitRequest>>]
    ELSE LET approvals == GetPRApprovals(v, approvalsX) IN
         IF approvals.err # "none"
         THEN [val |-> Nil, err |-> approvals.err,
               requests |-> <<CommitRequest, ApprovalsRequest(number)>>]
         ELSE [val |-> <<[PR |-> found, Approvers |-> approvals.val]>>,
               err |-> "none",
               requests |-> <<CommitRequest, ApprovalsRequest(number)>>]

\* GetPRApprovalInfo asking once more when the commit request failed.
GetPRApprovalInfoRetries(v, commitX, approvalsX) ==
    LET pr == FindPRByCommit(v, commitX) IN
    IF pr.err # "none"
    THEN [val |-> Nil, err |-> pr.err, requests |-> <<CommitRequest, CommitRequest>>]
    ELSE IF pr.val = Nil
    THEN [val |-> Nil, err |-> "nopr", requests |-> <<CommitRequest>>]
    ELSE LET approvals == GetPRApprovals(v, approvalsX) IN
         IF approvals.err # "none"
         THEN [val |-> Nil, err |-> approvals.err,
               requests |-> <<CommitRequest, ApprovalsRequest(pr.val[1].Number)>>]
         ELSE [val |-> <<[PR |-> pr.val[1], Approvers |-> approvals.val]>>,
               err |-> "none",
               requests |-> <<CommitRequest, ApprovalsRequest(pr.val[1].Number)>>]

\* GetPRApprovalInfo: val is a *PRApprovalInfo, requests the requests issued
GetPRApprovalInfo(v, commitX, approvalsX) ==
    LET pr == FindPRByCommit(v, commitX) IN
    IF pr.err # "none"
    THEN [val |-> Nil, err |-> pr.err, requests |-> <<CommitRequest>>]
    ELSE IF pr.val = Nil
    THEN [val |-> Nil, err |-> "nopr", requests |-> <<CommitRequest>>]
    ELSE LET approvals == GetPRApprovals(v, approvalsX) IN
         IF approvals.err # "none"
         THEN [val |-> Nil, err |-> approvals.err,
               requests |-> <<CommitRequest, ApprovalsRequest(pr.val[1].Number)>>]
         ELSE [val |-> <<[PR |-> pr.val[1], Approvers |-> approvals.val]>>,
               err |-> "none",
               requests |-> <<CommitRequest, ApprovalsRequest(pr.val[1].Number)>>]

(***************************************************************************)
(* OutputFormatter.formatPorcelain.                                        *)
(*                                                                         *)
(* An int64 produced by strconv.ParseInt is kept as sign and decimal        *)
(* digits, so that the 64-bit range is the real one.                       *)
(***************************************************************************)
Digits == <<"0", "1", "2", "3", "4", "5", "6", "7", "8", "9">>

DigitValue(c) == CHOOSE d \in 0..9 : Digits[d + 1] = c

IsDigit(c) == \E d \in 0..9 : Digits[d + 1] = c

\* fmt's %d of an int
RECURSIVE Itoa(_)
Itoa(n) ==
    IF n < 0 THEN <<"-">> \o Itoa(-n)
    ELSE IF n < 10 THEN <<Digits[n + 1]>>
    ELSE Itoa(n \div 10) \o <<Digits[(n % 10) + 1]>>

\* Magnitudes of the largest and of the smallest int64.
MaxInt64Digits ==
    <<"9", "2", "2", "3", "3", "7", "2", "0", "3", "6",
      "8", "5", "4", "7", "7", "5", "8", "0", "7">>
MinInt64Digits ==
    <<"9", "2", "2", "3", "3", "7", "2", "0", "3", "6",
      "8", "5", "4", "7", "7", "5", "8", "0", "8">>

RECURSIVE StripZeros(_)
StripZeros(ds) ==
    IF Len(ds) > 1 /\ ds[1] = "0" THEN StripZeros(Tail(ds)) ELSE ds

\* a <= b for two decimal magnitudes without leading zeros
LeqDigits(a, b) ==
    \/ Len(a) < Len(b)
    \/ /\ Len(a) = Len(b)
       /\ \/ a = b
          \/ \E i \in 1..Len(a) :
               /\ SubSeq(a, 1, i - 1) = SubSeq(b, 1, i - 1)
               /\ DigitValue(a[i]) < DigitValue(b[i])

\* The largest uint64
MaxUint64Digits ==
    <<"1", "8", "4", "4", "6", "7", "4", "4", "0", "7",
      "3", "7", "0", "9", "5", "5", "1", "6", "1", "5">>

\* strconv.ParseInt(s, 10, 64): an optional sign, then ParseUint's loop over
\* the bytes left to right.  The loop returns ErrSyntax at the first byte
\* that is no digit and ErrRange at the first digit with which the value no
\* longer fits a uint64, whichever comes first; a value that fits a uint64
\* is then checked against the int64 range.
ParseInt(s) ==
    LET signed == s # <<>> /\ s[1] \in {"+", "-"}
        neg == s # <<>> /\ s[1] = "-"
        ds == IF signed THEN Tail(s) ELSE s
        bad == {i \in 1..Len(ds) : ~IsDigit(ds[i])}
        digitsUpTo == IF bad = {} THEN Len(ds) ELSE MinOf(bad) - 1
        over == {i \in 1..digitsUpTo :
                   ~LeqDigits(StripZeros(SubSeq(ds, 1, i)), MaxUint64Digits)}
    IN IF ds = <<>> \/ (bad # {} /\ over = {})
       THEN [err |-> "ErrSyntax", neg |-> FALSE, digits |-> <<>>]
       ELSE IF over # {}
               \/ ~LeqDigits(StripZeros(ds),
                             IF neg THEN MinInt64Digits ELSE MaxInt64Digits)
       THEN [err |-> "ErrRange", neg |-> FALSE, digits |-> <<>>]
       ELSE [err |-> "none", neg |-> neg /\ StripZeros(ds) # <<"0">>,
             digits |-> StripZeros(ds)]

\* fmt's %d of the int64 ParseInt returned
FormatInt64(v) == (IF v.neg THEN <<"-">> ELSE <<>>) \o v.digits

AuthorLabel == <<"a", "u", "t", "h", "o", "r", " ">>
AuthorMailLabel == <<"a", "u", "t", "h", "o", "r", "-", "m", "a", "i", "l", " ">>
AuthorTimeLabel == <<"a", "u", "t", "h", "o", "r", "-", "t", "i", "m", "e", " ">>
PRNumberLabel == <<"p", "r", "-", "n", "u", "m", "b", "e", "r", " ">>
FilenameLabel == <<"f", "i", "l", "e", "n", "a", "m", "e", " ">>
NewLine == <<"\n">>

\* ApproverLines falling back to the commit author's email when the approver
\* has none.
ApproverLinesAuthorMail(line) ==
    AuthorLabel \o line.Approver \o NewLine
    \o (IF line.ApproverEmail # <<>>
        THEN AuthorMailLabel \o <<"<">> \o line.ApproverEmail \o <<">">> \o NewLine
        ELSE AuthorMailLabel \o <<"<">> \o line.BlameLine.AuthorEmail \o <<">">>
               \o NewLine)
    \o (IF line.ApprovalTime # Nil
        THEN AuthorTimeLabel \o Itoa(UnixOf(line.ApprovalTime[1])) \o NewLine
        ELSE <<>>)

\* The author lines of a block when Approver is set.
ApproverLines(line) ==
    AuthorLabel \o line.Approver \o NewLine
    \o (IF line.ApproverEmail # <<>>
        THEN AuthorMailLabel \o <<"<">> \o line.ApproverEmail \o <<">">> \o NewLine
        ELSE <<>>)
    \o (IF line.ApprovalTime # Nil
        THEN AuthorTimeLabel \o Itoa(UnixOf(line.ApprovalTime[1])) \o NewLine
        ELSE <<>>)

\* The author lines of a block when Approver is empty: the original author.
OriginalAuthorLines(line) ==
    AuthorLabel \o line.BlameLine.Author \o NewLine
    \o AuthorMailLabel \o <<"<">> \o line.BlameLine.AuthorEmail \o <<">">> \o NewLine
    \o (IF ParseInt(line.BlameLine.Date).err = "none"
        THEN AuthorTimeLabel \o FormatInt64(ParseInt(line.BlameLine.Date)) \o NewLine
        ELSE <<>>)

\* PorcelainBlock writing the pr-number line right after the header.
PorcelainBlockPRFirst(line) ==
    line.BlameLine.CommitHash \o <<" ">> \o Itoa(line.BlameLine.LineNumber)
      \o <<" ">> \o Itoa(line.BlameLine.LineNumber) \o <<" ", "1">> \o NewLine
    \o (IF line.PRNumber > 0
        THEN PRNumberLabel \o Itoa(line.PRNumber) \o NewLine
        ELSE <<>>)
    \o (IF line.Approver # <<>> THEN ApproverLines(line)
        ELSE OriginalAuthorLines(line))
    \o FilenameLabel \o NewLine
    \o <<"\t">> \o line.BlameLine.Content \o NewLine

\* One iteration of the loop of formatPorcelain.
PorcelainBlock(line) ==
    line.BlameLine.CommitHash \o <<" ">> \o Itoa(line.BlameLine.LineNumber)
      \o <<" ">> \o Itoa(line.BlameLine.LineNumber) \o <<" ", "1">> \o NewLine
    \o (IF line.Approver # <<>> THEN ApproverLines(line)
        ELSE OriginalAuthorLines(line))
    \o (IF line.PRNumber > 0
        THEN PRNumberLabel \o Itoa(line.PRNumber) \o NewLine
        ELSE <<>>)
    \o FilenameLabel \o NewLine
    \o <<"\t">> \o line.BlameLine.Content \o NewLine

RECURSIVE formatPorcelainFrom(_, _)
formatPorcelainFrom(lines, k) ==
    IF k > Len(lines) THEN <<>>
    ELSE PorcelainBlock(lines[k]) \o formatPorcelainFrom(lines, k + 1)

formatPorcelain(lines) == formatPorcelainFrom(lines, 1)

(***************************************************************************)
(* The human-readable rendering.  The formatter is the record of its three *)
(* flags.  A time in time.Local is shown at the offset the process's time  *)
(* zone has at that instant; the caller passes the zone as zone.           *)
(***************************************************************************)
NewOutputFormatter(showEmail, porcelain, noColors) ==
    [ShowEmail |-> showEmail, Porcelain |-> porcelain, NoColors |-> noColors]

\* getAuthorName never looking at the approver.
getAuthorNameOfCommit(f, line) ==
    IF f.ShowEmail /\ line.BlameLine.AuthorEmail # <<>>
    THEN line.BlameLine.AuthorEmail
    ELSE line.BlameLine.Author

getAuthorName(f, line) ==
    IF line.Approver # <<>>
    THEN IF f.ShowEmail /\ line.ApproverEmail # <<>>
         THEN line.ApproverEmail
         ELSE line.Approver
    ELSE IF f.ShowEmail /\ line.BlameLine.AuthorEmail # <<>>
         THEN line.BlameLine.AuthorEmail
         ELSE line.BlameLine.Author

\* The int a decimal magnitude stands for.
RECURSIVE DigitsToInt(_)
DigitsToInt(ds) ==
    IF ds = <<>> THEN 0
    ELSE 10 * DigitsToInt(SubSeq(ds, 1, Len(ds) - 1)) + DigitValue(ds[Len(ds)])

Int64Value(v) == IF v.neg THEN -DigitsToInt(v.digits) ELSE DigitsToInt(v.digits)

\* fmt's %*d and %-*s: blanks up to the width, nothing cut.  fmt measures
\* the width in runes (utf8.RuneCountInString).
PadLeft(s, width, c) ==
    IF RuneCountInString(s) >= width THEN s
    ELSE Repeat(c, width - RuneCountInString(s)) \o s

PadRight(s, width) ==
    IF RuneCountInString(s) >= width THEN s
    ELSE s \o Repeat(" ", width - RuneCountInString(s))

\* Year, month and day of the day that is days after 1970-01-01.
CivilFromDays(days) ==
    LET z == days + 719468
        era == z \div 146097
        doe == z - era * 146097
        yoe == (doe - doe \div 1460 + doe \div 36524 - doe \div 146096) \div 365
        doy == doe - (365 * yoe + yoe \div 4 - yoe \div 100)
        mp == (5 * doy + 2) \div 153
        mon == IF mp < 10 THEN mp + 3 ELSE mp - 9
    IN [year |-> yoe + era * 400 + (IF mon <= 2 THEN 1 ELSE 0),
        month |-> mon,
        day |-> doy - (153 * mp + 2) \div 5 + 1]

\* The time zones the process may run in, and the offset each has at an
\* instant: standard time, and the daylight saving time of 2021 between its
\* two transitions (the instants the model formats in time.Local lie in
\* January 1970 and in 2021).
Zones == {"UTC", "America/New_York", "Europe/Paris"}

ZoneOffset(zone, sec) ==
    IF zone = "America/New_York"
    THEN (IF sec >= 1615705200 /\ sec < 1636264800 THEN -14400 ELSE -18000)
    ELSE IF zone = "Europe/Paris"
    THEN (IF sec >= 1616893200 /\ sec < 1635642000 THEN 7200 ELSE 3600)
    ELSE 0

\* Seconds east of UTC at which the time t is shown.
OffsetOf(t, zone) ==
    IF t.loc = Local THEN ZoneOffset(zone, t.unix) ELSE t.loc.offset

\* Time.Format("2006-01-02 15:04:05")
FormatTime(t, zone) ==
    LET sec == t.unix + OffsetOf(t, zone)
        date == CivilFromDays(sec \div 86400)
        rest == sec % 86400
    IN PadLeft(Itoa(date.year), 4, "0") \o <<"-">>
       \o PadLeft(Itoa(date.month), 2, "0") \o <<"-">>
       \o PadLeft(Itoa(date.day), 2, "0") \o <<" ">>
       \o PadLeft(Itoa(rest \div 3600), 2, "0") \o <<":">>
       \o PadLeft(Itoa((rest % 3600) \div 60), 2, "0") \o <<":">>
       \o PadLeft(Itoa(rest % 60), 2, "0")

\* getDateString preferring the commit timestamp to the approval time.
getDateStringCommitFirst(f, zone, line) ==
    IF ParseInt(line.BlameLine.Date).err = "none"
    THEN FormatTime(TimeUnix(Int64Value(ParseInt(line.BlameLine.Date))), zone)
    ELSE IF line.ApprovalTime # Nil
    THEN FormatTime(line.ApprovalTime[1], zone)
    ELSE line.BlameLine.Date

getDateString(f, zone, line) ==
    IF line.ApprovalTime # Nil
    THEN FormatTime(line.ApprovalTime[1], zone)
    ELSE IF ParseInt(line.BlameLine.Date).err = "none"
    THEN FormatTime(TimeUnix(Int64Value(ParseInt(line.BlameLine.Date))), zone)
    ELSE line.BlameLine.Date

MaxOf(S) == CHOOSE x \in S : \A y \in S : y <= x

\* The first loop of formatHuman: the largest len(authorName), in bytes.
maxAuthorWidth(f, lines) ==
    MaxOf({0} \cup {Len(getAuthorName(f, lines[i])) : i \in 1..Len(lines)})

maxLineNumWidth(lines) == Len(Itoa(Len(lines)))

\* One iteration of the second loop of formatHuman.
HumanRow(f, zone, lines, line) ==
    (IF Len(line.BlameLine.CommitHash) > 8
     THEN SubSeq(line.BlameLine.CommitHash, 1, 8)
     ELSE line.BlameLine.CommitHash)
    \o <<" ", "(">> \o PadRight(getAuthorName(f, line), maxAuthorWidth(f, lines))
    \o <<" ">> \o getDateString(f, zone, line)
    \o <<" ">> \o PadLeft(Itoa(line.BlameLine.LineNumber), maxLineNumWidth(lines), " ")
    \o <<")", " ">> \o line.BlameLine.Content \o NewLine

RECURSIVE formatHumanFrom(_, _, _, _)
formatHumanFrom(f, zone, lines, k) ==
    IF k > Len(lines) THEN <<>>
    ELSE HumanRow(f, zone, lines, lines[k]) \o formatHumanFrom(f, zone, lines, k + 1)

formatHuman(f, zone, lines) ==
    IF Len(lines) = 0 THEN <<>> ELSE formatHumanFrom(f, zone, lines, 1)

\* FormatOutput always rendering the blocks of the porcelain format.
FormatOutputOfPorcelainOnly(f, zone, lines) == formatPorcelain(lines)

\* The text FormatOutput returns.
FormatOutputOf(f, zone, lines) ==
    IF f.Porcelain THEN formatPorcelain(lines) ELSE formatHuman(f, zone, lines)

\* formatHuman reads time.Local when it formats a time that is in it: a
\* commit timestamp, or an approval time made by time.Unix.
LoadsLocal(f, lines) ==
    /\ ~f.Porcelain
    /\ \E i \in 1..Len(lines) :
         IF lines[i].ApprovalTime # Nil
         THEN lines[i].ApprovalTime[1].loc = Local
         ELSE ParseInt(lines[i].BlameLine.Date).err = "none"

\* The zone handed over where time.Local was not needed.
ZoneOf(loc) == IF loc = Nil THEN "UTC" ELSE loc[1]

HashLen == 40
HashA == Repeat("a", HashLen)
HashB == <<"0", "F">> \o Repeat("b", HashLen - 2)
Hashes == {HashA, HashB}

Sp == <<" ">>
Tab == <<"\t">>
LT == <<"<">>
GT == <<">">>

(***************************************************************************)
(* parseGitBlameOutput.                                                    *)
(***************************************************************************)
HexDigits ==
    {"0", "1", "2", "3", "4", "5", "6", "7", "8", "9",
     "a", "b", "c", "d", "e", "f", "A", "B", "C", "D", "E", "F"}

isHexString(s) == \A i \in 1..Len(s) : s[i] \in HexDigits

\* bufio.MaxScanTokenSize, the buffer limit of the Scanner made by NewScanner
MaxScanTokenSize == 64 * 1024

SortedSeq(S) ==
    [k \in 1..Cardinality(S) |-> CHOOSE x \in S : Cardinality({y \in S : y < x}) = k - 1]

\* bufio.ScanLines: a trailing carriage return is not part of the token
DropCR(raw) ==
    IF raw # <<>> /\ raw[Len(raw)] = "\r" THEN SubSeq(raw, 1, Len(raw) - 1) ELSE raw

\* bufio.Scanner with the default split function and buffer: the tokens
\* scanner.Text() yields, and scanner.Err().  A line that does not fit the
\* buffer ends the scan with ErrTooLong; nothing after it is delivered.
ScanLines(text) ==
    LET nl == {i \in 1..Len(text) : text[i] = "\n"}
        starts == SortedSeq({1} \cup {i + 1 : i \in nl})
        n == IF text = <<>> THEN 0
             ELSE IF text[Len(text)] = "\n" THEN Cardinality(nl)
             ELSE Cardinality(nl) + 1
        raw == [k \in 1..n |->
                  SubSeq(text, starts[k],
                         IF k <= Cardinality(nl) THEN starts[k + 1] - 2 ELSE Len(text))]
        long == {k \in 1..n : Len(raw[k]) >= MaxScanTokenSize}
        m == IF long = {} THEN n ELSE MinOf(long) - 1
    IN [tokens |-> [k \in 1..m |-> DropCR(raw[k])],
        err |-> IF long = {} THEN "none" ELSE "ErrTooLong"]


EmptyBlameLine ==
    [CommitHash |-> <<>>, Author |-> <<>>, AuthorEmail |-> <<>>, Date |-> <<>>,
     LineNumber |-> 0, Content |-> <<>>]

AuthorPrefix == <<"a", "u", "t", "h", "o", "r", " ">>
AuthorMailPrefix == <<"a", "u", "t", "h", "o", "r", "-", "m", "a", "i", "l", " ">>
AuthorTimePrefix == <<"a", "u", "t", "h", "o", "r", "-", "t", "i", "m", "e", " ">>

\* Line 118: the line opens a new record
IsCommitLine(line) == Len(line) >= HashLen /\ isHexString(Slice(line, 0, HashLen))

\* Lines 138-142: trim, then drop the angle brackets around the address
ParseAuthorMail(rest) ==
    LET email == TrimSpace(rest) IN
    IF Len(email) > 2 /\ email[1] = "<" /\ email[Len(email)] = ">"
    THEN Slice(email, 1, Len(email) - 1)
    ELSE email

\* Lines 110-149: the body of the scan loop for one line.  st is the loop's
\* state [lines, currentLine, lineNumber].
ParseLine(st, line) ==
    IF line = <<>> THEN st
    ELSE IF IsCommitLine(line)
    THEN [lines |-> IF st.currentLine.CommitHash # <<>>
                    THEN Append(st.lines, st.currentLine) ELSE st.lines,
          currentLine |-> [EmptyBlameLine EXCEPT
                             !.CommitHash = Fields(line)[1],
                             !.LineNumber = st.lineNumber + 1],
          lineNumber |-> st.lineNumber + 1]
    ELSE IF HasPrefix(line, AuthorPrefix)
    THEN [st EXCEPT !.currentLine.Author = Slice(line, 7, Len(line))]
    ELSE IF HasPrefix(line, AuthorMailPrefix)
    THEN [st EXCEPT !.currentLine.AuthorEmail =
                       ParseAuthorMail(Slice(line, 12, Len(line)))]
    ELSE IF HasPrefix(line, AuthorTimePrefix)
    THEN [st EXCEPT !.currentLine.Date = Slice(line, 12, Len(line))]
    ELSE IF HasPrefix(line, <<"\t">>)
    THEN [st EXCEPT !.currentLine.Content = Slice(line, 1, Len(line))]
    ELSE st

RECURSIVE ParseLines(_, _, _)
ParseLines(st, tokens, k) ==
    IF k > Len(tokens) THEN st
    ELSE ParseLines(ParseLine(st, tokens[k]), tokens, k + 1)

\* parseGitBlameOutput: (lines, scanner.Err())
parseGitBlameOutput(output) ==
    LET scan == ScanLines(output)
        st == ParseLines([lines |-> <<>>, currentLine |-> EmptyBlameLine,
                          lineNumber |-> 0], scan.tokens, 1)
    IN [lines |-> IF st.currentLine.CommitHash # <<>>
                  THEN Append(st.lines, st.currentLine) ELSE st.lines,
        err |-> scan.err]

(***************************************************************************)
(* Correlation loop of runGitReviewBlame (step 5).                         *)
(***************************************************************************)

\* The commits of the blamed file: what git records for each.  The commit
\* HashB was made with an empty author email.
AuthorOf(h) == IF h = HashA THEN <<"A", "n", "n">> ELSE <<"B", "e", "n">>
AuthorMailOf(h) == IF h = HashA THEN <<"a", "@", "y">> ELSE <<>>
AuthorTimeOf(h) == IF h = HashA THEN <<"1", "7">> ELSE <<"9">>

\* The text of line i of the blamed file.
ContentOf(i) == IF i % 2 = 1 THEN <<"x", " ", "y">> ELSE <<>>

\* The lines from i on that git blame puts into one group with line i.
RECURSIVE GroupLen(_, _)
GroupLen(hs, i) ==
    IF i < Len(hs) /\ hs[i + 1] = hs[i] THEN 1 + GroupLen(hs, i + 1) ELSE 1

\* The header of the record of line i: the count of the group's lines
\* follows the two line numbers on the first line of a group.
BlameHeader(hs, i) ==
    hs[i] \o Sp \o Itoa(i) \o Sp \o Itoa(i)
          \o (IF i = 1 \/ hs[i - 1] # hs[i]
              THEN Sp \o Itoa(GroupLen(hs, i)) ELSE <<>>)

\* The record git blame prints for line i of a file whose lines come from
\* the commits hs.  With --line-porcelain every record carries the commit's
\* details; with --porcelain only the first record of a commit does.  The
\* lines of a record that the parser passes over (author-tz, committer,
\* summary, filename) are left out.
RecordText(hs, i, porcelain) ==
    <<BlameHeader(hs, i)>>
    \o (IF porcelain /\ \E j \in 1..(i - 1) : hs[j] = hs[i]
        THEN <<>>
        ELSE << AuthorPrefix \o AuthorOf(hs[i]),
                AuthorMailPrefix \o LT \o AuthorMailOf(hs[i]) \o GT,
                AuthorTimePrefix \o AuthorTimeOf(hs[i]) >>)
    \o <<Tab \o ContentOf(i)>>

\* The lines of the output of the command ExecuteGitBlame runs: git blame
\* --porcelain when porcelain is set, git blame --line-porcelain otherwise.
RECURSIVE GitBlameLines(_, _, _)
GitBlameLines(hs, i, porcelain) ==
    IF i > Len(hs) THEN <<>>
    ELSE RecordText(hs, i, porcelain) \o GitBlameLines(hs, i + 1, porcelain)

\* The output as one string, each line ended by a line feed.
RECURSIVE EndLines(_)
EndLines(ls) ==
    IF ls = <<>> THEN <<>> ELSE Head(ls) \o <<"\n">> \o EndLines(Tail(ls))

GitBlameOutput(hs, porcelain) == EndLines(GitBlameLines(hs, 1, porcelain))

\* ExecuteGitBlame on a file whose lines come from the commits hs, for a
\* command that succeeds: the parser's result on the command's output.
ExecuteGitBlame(hs, porcelain) == parseGitBlameOutput(GitBlameOutput(hs, porcelain))

\* The blame lines step 3 hands to the loop: the parser's result on git's
\* output for files of up to max lines.
BlameInputs(max, porcelain) ==
    { ExecuteGitBlame(hs, porcelain).lines :
        hs \in UNION { [1..n -> Hashes] : n \in 0..max } }

\* ApplyApproval taking the first approval record instead of the last.
ApplyApprovalFirst(line, approvalInfo) ==
    LET withPR == [line EXCEPT !.PRNumber = approvalInfo.PR.Number] IN
    IF Len(approvalInfo.Approvers) > 0
    THEN LET firstApprover == approvalInfo.Approvers[1] IN
         [withPR EXCEPT !.Approver = firstApprover.User.Login,
                        !.ApproverEmail = firstApprover.User.Email,
                        !.ApprovalTime = firstApprover.SubmittedAt]
    ELSE withPR

\* ApplyApproval setting the PR number only inside the approver branch.
ApplyApprovalNeedsApprover(line, approvalInfo) ==
    IF Len(approvalInfo.Approvers) > 0
    THEN LET lastApprover == approvalInfo.Approvers[Len(approvalInfo.Approvers)] IN
         [line EXCEPT !.PRNumber = approvalInfo.PR.Number,
                      !.Approver = lastApprover.User.Login,
                      !.ApproverEmail = lastApprover.User.Email,
                      !.ApprovalTime = lastApprover.SubmittedAt]
    ELSE line

\* Lines 112-119 and 131-138: the PR number, and the last approver if any.
ApplyApproval(line, approvalInfo) ==
    LET withPR == [line EXCEPT !.PRNumber = approvalInfo.PR.Number] IN
    IF Len(approvalInfo.Approvers) > 0
    THEN LET lastApprover == approvalInfo.Approvers[Len(approvalInfo.Approvers)] IN
         [withPR EXCEPT !.Approver = lastApprover.User.Login,
                        !.ApproverEmail = lastApprover.User.Email,
                        !.ApprovalTime = lastApprover.SubmittedAt]
    ELSE withPR

\* Lines 105-107: the zero-valued annotation around the blame line.
NewLineWithApproval(blameLine) ==
    [BlameLine |-> blameLine, PRNumber |-> 0, Approver |-> <<>>,
     ApproverEmail |-> <<>>, ApprovalTime |-> Nil]

\* AnnotateFromCache leaving the lines served from the cache bare.
AnnotateFromCacheBare(blameLine, cached) == NewLineWithApproval(blameLine)

\* Lines 110-120: the cache holds an entry for the commit (nil marks a failure).
AnnotateFromCache(blameLine, cached) ==
    IF cached # Nil
    THEN ApplyApproval(NewLineWithApproval(blameLine), cached[1])
    ELSE NewLineWithApproval(blameLine)

\* AnnotateFromFetch building the annotation around the blame line only on
\* the success path, so that a failed fetch yields an empty record.
AnnotateFromFetchLosesLine(blameLine, res) ==
    IF res.err # "none"
    THEN NewLineWithApproval([CommitHash |-> <<>>, Author |-> <<>>,
                              AuthorEmail |-> <<>>, Date |-> <<>>,
                              LineNumber |-> 0, Content |-> <<>>])
    ELSE ApplyApproval(NewLineWithApproval(blameLine), res.val[1])

\* Lines 123-139: annotation of the line whose commit was just fetched.
AnnotateFromFetch(blameLine, res) ==
    IF res.err # "none"
    THEN NewLineWithApproval(blameLine)
    ELSE ApplyApproval(NewLineWithApproval(blameLine), res.val[1])

MapPut(m, k, v) == [x \in DOMAIN m \cup {k} |-> IF x = k THEN v ELSE m[x]]

\* CacheFetched that stores successes only: a failure leaves no marker.
CacheFetchedSuccessOnly(cache, hash, res) ==
    IF res.err # "none" THEN cache
    ELSE MapPut(cache, hash, res.val)

\* CacheFetched that, on a failure, stores the pointer left over from an
\* earlier successful fetch instead of nil.
CacheFetchedStale(cache, hash, res) ==
    IF res.err # "none"
    THEN LET good == {h \in DOMAIN cache : cache[h] # Nil} IN
         MapPut(cache, hash, IF good = {} THEN Nil ELSE cache[CHOOSE h \in good : TRUE])
    ELSE MapPut(cache, hash, res.val)

\* Lines 124-129: a failure is cached as nil, a success as the pointer.
CacheFetched(cache, hash, res) ==
    IF res.err # "none" THEN MapPut(cache, hash, Nil)
    ELSE MapPut(cache, hash, res.val)

\* What one iteration does after the line is annotated (line 142).
AppendLine(lines, lineWithApproval) == Append(lines, lineWithApproval)

InitCorrelation ==
    /\ variant \in {"GitHub", "GitLab"}
    /\ blameLines \in BlameInputs(MaxLines, args[1].porcelain)
    /\ idx = 1
    /\ commitCache = <<>>
    /\ linesWithApprovals = <<>>
    /\ fetchCalls = <<>>
    /\ pc = "correlate"
    /\ runs = 1
    /\ prevOutput = <<>>
    /\ formatted = Nil

IdleCorrelation ==
    /\ variant = "GitHub"
    /\ blameLines = <<>>
    /\ idx = 1
    /\ commitCache = <<>>
    /\ linesWithApprovals = <<>>
    /\ fetchCalls = <<>>
    /\ pc = "idle"
    /\ runs = 1
    /\ prevOutput = <<>>
    /\ formatted = Nil

IdleParse == blameText = Nil /\ parsed = Nil

IdleURL == remote = Nil /\ resolved = Nil

IdleClient == factoryArgs = Nil /\ client = Nil /\ clientCall = Nil

IdleMain ==
    formatter = Nil /\ local = Nil /\ args = Nil /\ gitRoot = Nil /\ stdout = <<>>

\* One iteration of the loop, the commit already being in the cache.
CorrelateCached ==
    /\ pc = "correlate"
    /\ idx <= Len(blameLines)
    /\ blameLines[idx].CommitHash \in DOMAIN commitCache
    /\ linesWithApprovals' =
         AppendLine(linesWithApprovals,
                    AnnotateFromCache(blameLines[idx],
                                      commitCache[blameLines[idx].CommitHash]))
    /\ idx' = idx + 1
    /\ UNCHANGED <<variant, blameLines, commitCache, fetchCalls, pc, runs,
                   prevOutput, formatted, parseVars, urlVars, clientVars, fmtVars, mainVars>>

\* One iteration of the loop, the commit not being in the cache: one call of
\* client.GetPRApprovalInfo, whatever the provider answers.
CorrelateFetch ==
    /\ pc = "correlate"
    /\ idx <= Len(blameLines)
    /\ blameLines[idx].CommitHash \notin DOMAIN commitCache
    /\ \E cx \in CommitExchanges(variant), ax \in ApprovalExchanges(variant) :
         LET res == GetPRApprovalInfo(variant, cx, ax) IN
         /\ fetchCalls' = Append(fetchCalls,
                                 [CommitHash |-> blameLines[idx].CommitHash,
                                  line |-> idx, run |-> runs, err |-> res.err,
                                  val |-> res.val, requests |-> res.requests])
         /\ commitCache' = CacheFetched(commitCache, blameLines[idx].CommitHash, res)
         /\ linesWithApprovals' =
              AppendLine(linesWithApprovals, AnnotateFromFetch(blameLines[idx], res))
    /\ idx' = idx + 1
    /\ UNCHANGED <<variant, blameLines, pc, runs, prevOutput, formatted,
                   parseVars, urlVars, clientVars, fmtVars, mainVars>>

\* The range loop is exhausted: the annotated lines go to a new formatter
\* (step 6), whose flags are the command line's, and the text is printed.
FinishCorrelation ==
    /\ pc = "correlate"
    /\ idx > Len(blameLines)
    /\ LET f == NewOutputFormatter(args[1].showEmail, args[1].porcelain, FALSE) IN
         /\ formatter' = <<f>>
         /\ IF LoadsLocal(f, linesWithApprovals)
            THEN \E z \in Zones : local' = <<z>>
            ELSE local' = local
         /\ formatted' = <<FormatOutputOf(f, ZoneOf(local'), linesWithApprovals)>>
    /\ stdout' = Append(stdout, formatted'[1])
    /\ pc' = "done"
    /\ UNCHANGED <<variant, blameLines, idx, commitCache, linesWithApprovals,
                   fetchCalls, runs, prevOutput, parseVars, urlVars, clientVars,
                   args, gitRoot>>

\* The loop entered a second time over the same blame lines with the cache
\* the first pass left behind (the scenario of "calling correlation twice
\* against the same cache instance").
Rerun ==
    /\ pc = "done"
    /\ runs = 1
    /\ prevOutput' = linesWithApprovals
    /\ linesWithApprovals' = <<>>
    /\ idx' = 1
    /\ runs' = 2
    /\ pc' = "correlate"
    /\ formatted' = Nil
    /\ formatter' = Nil
    /\ local' = Nil
    /\ stdout' = <<>>
    /\ UNCHANGED <<variant, blameLines, commitCache, fetchCalls, parseVars, urlVars,
                   clientVars, args, gitRoot>>

\* The loop of an invocation `git-review-blame -porcelain <file>`.
InitPorcelainRun ==
    /\ formatter = Nil
    /\ local = Nil
    /\ args = <<[porcelain |-> TRUE, showEmail |-> FALSE]>>
    /\ gitRoot = Nil
    /\ stdout = <<>>

Init == InitPorcelainRun /\ InitCorrelation /\ IdleParse /\ IdleURL /\ IdleClient

Next == CorrelateCached \/ CorrelateFetch \/ FinishCorrelation

Spec == Init /\ [][Next]_vars

NextRerun == CorrelateCached \/ CorrelateFetch \/ FinishCorrelation \/ Rerun

SpecRerun == Init /\ [][NextRerun]_vars

(***************************************************************************)
(* Blame texts given to parseGitBlameOutput.  blameText describes a text   *)
(* by its lines and its line-ending style; a line is [s, fill], standing   *)
(* for the characters s followed by fill more 'x' characters.  TextOf is   *)
(* the string handed to the parser.                                        *)
(***************************************************************************)
MaxTextLines == 3     \* lines of a freely combined blame text

AtY == <<"a", "@", "y">>

HeaderA == HashA \o <<" ", "1", " ", "1", " ", "1">>
HeaderLong == HashA \o <<"c", "d", " ", "2", " ", "2", " ", "1">>
HeaderFormFeed == HashA \o <<"\f", "1", " ", "1">>

\* Lines of every kind the parser distinguishes.
GeneralLines ==
    { HeaderA,                                   \* record start with line info
      HashB,                                     \* record start, hash alone
      HeaderLong,                                \* 42 hex digits before the space
      HeaderFormFeed,                            \* a form feed after the hash
      Repeat("a", HashLen - 1),                  \* 39 hex digits: no record start
      AuthorPrefix \o <<"A", "n", "n">>,
      AuthorMailPrefix \o LT \o AtY \o GT,
      AuthorTimePrefix \o <<"1", "7">>,
      Tab,                                       \* content line, empty content
      Tab \o <<"x", " ", "y">>,
      <<>> }                                     \* blank line

\* What may follow "author-mail ".
MailCores ==
    { LT \o AtY \o GT, LT \o GT, AtY, LT \o AtY, AtY \o GT, LT \o <<"a">> \o GT,
      LT, GT, <<>>, LT \o LT \o AtY \o GT \o GT }

FormFeed == <<"\f">>
NoBreakSpace == <<Byte(194), Byte(160)>>       \* U+00A0

MailRests ==
    { l \o c \o r : l \in {<<>>, Sp, FormFeed}, c \in MailCores,
                    r \in {<<>>, Sp, Tab, NoBreakSpace} }

MailLines == { <<HeaderA, AuthorMailPrefix \o m, Tab \o <<"x">> >> : m \in MailRests }

Plain(lines) == [k \in 1..Len(lines) |-> [s |-> lines[k], fill |-> 0]]

\* Texts with a content line at and beyond the Scanner's buffer limit.
LongLines ==
    { <<[s |-> HeaderA, fill |-> 0], [s |-> Tab, fill |-> n],
        [s |-> HashB, fill |-> 0], [s |-> Tab, fill |-> 0]>> :
        n \in {MaxScanTokenSize - 2, MaxScanTokenSize - 1, MaxScanTokenSize} }

LineSeqs(n) ==
    { Plain(ls) : ls \in SeqsUpTo(GeneralLines, n) \cup MailLines }
    \cup LongLines

LineString(d) == d.s \o Repeat("x", d.fill)

\* The lines of a described text, as strings.
SourceLines(t) == [k \in 1..Len(t.lines) |-> LineString(t.lines[k])]

\* "lf": lines joined by \n; "lf-final": every line ended by \n;
\* "crlf": every line ended by \r\n
EolStyles == {"lf", "lf-final", "crlf"}

RECURSIVE JoinLines(_, _, _)
JoinLines(lines, style, k) ==
    IF k > Len(lines) THEN <<>>
    ELSE lines[k]
         \o (IF style = "crlf" THEN <<"\r", "\n">>
             ELSE IF style = "lf-final" \/ k < Len(lines) THEN <<"\n">>
             ELSE <<>>)
         \o JoinLines(lines, style, k + 1)

BlameTexts(n) == { [lines |-> ls, style |-> st] : ls \in LineSeqs(n), st \in EolStyles }

TextOf(t) == JoinLines(SourceLines(t), t.style, 1)

InitParse == blameText \in { <<t>> : t \in BlameTexts(MaxTextLines) } /\ parsed = Nil

\* ExecuteGitBlame hands the output of git blame to parseGitBlameOutput.
Parse ==
    /\ blameText # Nil
    /\ parsed = Nil
    /\ parsed' = <<parseGitBlameOutput(TextOf(blameText[1]))>>
    /\ UNCHANGED <<blameText, corrVars, urlVars, clientVars, fmtVars, mainVars>>

InitForParse == IdleCorrelation /\ InitParse /\ IdleURL /\ IdleClient /\ IdleMain

NextParse == Parse

SpecParse == InitForParse /\ [][NextParse]_vars

(***************************************************************************)
(* parseRepositoryURL and parseRepoPath.                                   *)
(***************************************************************************)
DotGit == <<".", "g", "i", "t">>
GitHubCom == <<"g", "i", "t", "h", "u", "b", ".", "c", "o", "m">>
GitLabCom == <<"g", "i", "t", "l", "a", "b", ".", "c", "o", "m">>
GitLabExampleCom == <<"g", "i", "t", "l", "a", "b", ".", "e", "x", "a", "m", "p", "l", "e", ".", "c", "o", "m">>
SshGitHub == <<"g", "i", "t", "@", "g", "i", "t", "h", "u", "b", ".", "c", "o", "m", ":">>
HttpsGitHub == <<"h", "t", "t", "p", "s", ":", "/", "/", "g", "i", "t", "h", "u", "b", ".", "c", "o", "m", "/">>
HttpGitHub == <<"h", "t", "t", "p", ":", "/", "/", "g", "i", "t", "h", "u", "b", ".", "c", "o", "m", "/">>
SshGitLab == <<"g", "i", "t", "@", "g", "i", "t", "l", "a", "b", ".", "c", "o", "m", ":">>
HttpsGitLab == <<"h", "t", "t", "p", "s", ":", "/", "/", "g", "i", "t", "l", "a", "b", ".", "c", "o", "m", "/">>
HttpGitLab == <<"h", "t", "t", "p", ":", "/", "/", "g", "i", "t", "l", "a", "b", ".", "c", "o", "m", "/">>
Http == <<"h", "t", "t", "p">>
HttpsScheme == <<"h", "t", "t", "p", "s", ":", "/", "/">>
HttpScheme == <<"h", "t", "t", "p", ":", "/", "/">>
FtpScheme == <<"f", "t", "p", ":", "/", "/">>

\* RepositoryType
RepositoryTypeGitHub == "GitHub"
RepositoryTypeGitLab == "GitLab"

\* parseRepoPath: (*RepoInfo, error); Type and Host are filled in by the caller
parseRepoPath(path0) ==
    LET path == TrimSuffix(path0, DotGit)
        parts == Split(path, "/")
    IN IF Len(parts) < 2
       THEN [info |-> Nil, err |-> "invalid repository path"]
       ELSE [info |-> <<[Owner |-> parts[1], Name |-> parts[2],
                         Type |-> RepositoryTypeGitHub,   \* the zero value
                         Host |-> <<>>]>>,
             err |-> "none"]

\* The tail shared by every branch: parse the path, then set Type and Host.
WithTypeAndHost(path, type, host) ==
    LET r == parseRepoPath(path) IN
    IF r.err # "none" THEN [info |-> Nil, err |-> r.err]
    ELSE [info |-> <<[r.info[1] EXCEPT !.Type = type, !.Host = host]>>,
          err |-> "none"]

\* Lines 289-308: user@host:path, tried after the fixed prefixes.  Nil when
\* the string has no ':' after its first '@', so that the next test runs.
GenericSSH(url) ==
    LET hostAndPath == SplitN2(url, "@")[2]
        hostPathParts == SplitN2(hostAndPath, ":")
    IN IF Len(hostPathParts) = 2
       THEN <<WithTypeAndHost(hostPathParts[2], RepositoryTypeGitLab, hostPathParts[1])>>
       ELSE Nil

\* Lines 310-336: scheme://host/path for http and https.
GenericHTTP(url) ==
    LET rest == IF HasPrefix(url, HttpsScheme) THEN TrimPrefix(url, HttpsScheme)
                ELSE TrimPrefix(url, HttpScheme)
        slashIndex == Index(rest, <<"/">>)
    IN IF slashIndex = -1
       THEN [info |-> Nil, err |-> "invalid repository URL format"]
       ELSE WithTypeAndHost(Slice(rest, slashIndex + 1, Len(rest)),
                            RepositoryTypeGitLab, Slice(rest, 0, slashIndex))

\* parseRepositoryURL: (*RepoInfo, error)
parseRepositoryURL(url0) ==
    LET url == TrimSpace(url0) IN
    IF HasPrefix(url, SshGitHub)
    THEN WithTypeAndHost(TrimPrefix(url, SshGitHub), RepositoryTypeGitHub, GitHubCom)
    ELSE IF HasPrefix(url, HttpsGitHub)
    THEN WithTypeAndHost(TrimPrefix(url, HttpsGitHub), RepositoryTypeGitHub, GitHubCom)
    ELSE IF HasPrefix(url, HttpGitHub)
    THEN WithTypeAndHost(TrimPrefix(url, HttpGitHub), RepositoryTypeGitHub, GitHubCom)
    ELSE IF HasPrefix(url, SshGitLab)
    THEN WithTypeAndHost(TrimPrefix(url, SshGitLab), RepositoryTypeGitLab, GitLabCom)
    ELSE IF HasPrefix(url, HttpsGitLab)
    THEN WithTypeAndHost(TrimPrefix(url, HttpsGitLab), RepositoryTypeGitLab, GitLabCom)
    ELSE IF HasPrefix(url, HttpGitLab)
    THEN WithTypeAndHost(TrimPrefix(url, HttpGitLab), RepositoryTypeGitLab, GitLabCom)
    ELSE IF /\ Contains(url, <<"@">>) /\ Contains(url, <<":">>)
            /\ ~HasPrefix(url, Http)
            /\ GenericSSH(url) # Nil
    THEN GenericSSH(url)[1]
    ELSE IF HasPrefix(url, HttpsScheme) \/ HasPrefix(url, HttpScheme)
    THEN GenericHTTP(url)
    ELSE [info |-> Nil, err |-> "unsupported repository URL format"]

(***************************************************************************)
(* Remote strings given to parseRepositoryURL.  A remote is put together   *)
(* from a form, a user, a host and path segments; remote keeps these next  *)
(* to the resulting string.                                                *)
(***************************************************************************)
MaxPathSegments == 3    \* '/'-separated segments of a remote's path

Owner == <<"o", "w", "n">>
Repo == <<"r", "p">>

Segments == {Owner, Repo, Repo \o DotGit, <<>>}

RECURSIVE JoinPath(_, _)
JoinPath(segs, k) ==
    IF k > Len(segs) THEN <<>>
    ELSE segs[k] \o (IF k < Len(segs) THEN <<"/">> ELSE <<>>) \o JoinPath(segs, k + 1)

RemotePaths(n) ==
    { [segs |-> sg, path |-> JoinPath(sg, 1) \o sfx] :
        sg \in SeqsUpTo(Segments, n), sfx \in {<<>>, DotGit} }

RemoteHosts == {GitHubCom, GitLabCom, GitLabExampleCom}

RemoteUsers == {<<"g", "i", "t">>, <<"b", "o">>}

RemoteString(form, user, host, path) ==
    IF form = "ssh" THEN user \o <<"@">> \o host \o <<":">> \o path
    ELSE IF form = "https" THEN HttpsScheme \o host \o <<"/">> \o path
    ELSE IF form = "http" THEN HttpScheme \o host \o <<"/">> \o path
    ELSE IF form = "ftp" THEN FtpScheme \o host \o <<"/">> \o path
    ELSE <<>>

\* The remote as `git remote get-url origin` prints it, optionally with the
\* surrounding white space the trimming is there for.
Remotes(n) ==
    { [form |-> f, user |-> u, host |-> h, segs |-> p.segs, path |-> p.path,
       url |-> IF pad THEN Sp \o RemoteString(f, u, h, p.path) \o <<"\n">>
               ELSE RemoteString(f, u, h, p.path)] :
        f \in {"ssh"}, u \in RemoteUsers, h \in RemoteHosts, p \in RemotePaths(n),
        pad \in BOOLEAN }
    \cup
    { [form |-> f, user |-> <<>>, host |-> h, segs |-> p.segs, path |-> p.path,
       url |-> IF pad THEN Sp \o RemoteString(f, <<>>, h, p.path) \o <<"\n">>
               ELSE RemoteString(f, <<>>, h, p.path)] :
        f \in {"https", "http", "ftp"}, h \in RemoteHosts, p \in RemotePaths(n),
        pad \in BOOLEAN }
    \cup
    { [form |-> "empty", user |-> <<>>, host |-> <<>>, segs |-> <<>>,
       path |-> <<>>, url |-> <<>>] }

InitURL == remote \in { <<r>> : r \in Remotes(MaxPathSegments) } /\ resolved = Nil

\* ExtractRepoInfo hands the remote of origin to parseRepositoryURL.
ResolveRemote ==
    /\ remote # Nil
    /\ resolved = Nil
    /\ resolved' = <<parseRepositoryURL(remote[1].url)>>
    /\ UNCHANGED <<remote, corrVars, parseVars, clientVars, fmtVars, mainVars>>

InitForURL == IdleCorrelation /\ IdleParse /\ InitURL /\ IdleClient /\ IdleMain

NextURL == ResolveRemote

SpecURL == InitForURL /\ [][NextURL]_vars

(***************************************************************************)
(* ClientFactory.CreateClient and one call of the client it returns.       *)
(***************************************************************************)
\* A RepositoryType outside the enumeration, e.g. RepositoryType(999).
RepositoryTypeOther == "Other"

ErrMissingGitHubToken == "ErrMissingGitHubToken"
ErrMissingGitLabToken == "ErrMissingGitLabToken"
ErrUnsupportedRepositoryType == "ErrUnsupportedRepositoryType"

GitHubBaseURL ==
    HttpsScheme \o <<"a", "p", "i", ".">> \o GitHubCom

ApiV4 == <<"/", "a", "p", "i", "/", "v", "4">>

NewGitHubClientAdapter(token) ==
    [kind |-> "GitHub", token |-> token, baseURL |-> GitHubBaseURL, host |-> <<>>]

NewGitLabClient(token, host) ==
    [kind |-> "GitLab", token |-> token,
     baseURL |-> IF host = GitLabCom THEN HttpsScheme \o GitLabCom \o ApiV4
                 ELSE HttpsScheme \o host \o ApiV4,
     host |-> host]

\* CreateClient that accepts either token for either provider.
CreateClientAnyToken(repoInfo, githubToken, gitlabToken) ==
    IF repoInfo.Type = RepositoryTypeGitHub
    THEN IF githubToken = <<>> /\ gitlabToken = <<>>
         THEN [val |-> Nil, err |-> ErrMissingGitHubToken]
         ELSE [val |-> <<NewGitHubClientAdapter(githubToken)>>, err |-> "none"]
    ELSE IF repoInfo.Type = RepositoryTypeGitLab
    THEN IF githubToken = <<>> /\ gitlabToken = <<>>
         THEN [val |-> Nil, err |-> ErrMissingGitLabToken]
         ELSE [val |-> <<NewGitLabClient(gitlabToken, repoInfo.Host)>>, err |-> "none"]
    ELSE [val |-> Nil, err |-> ErrUnsupportedRepositoryType]

\* CreateClient: (ReviewClient, error)
CreateClient(repoInfo, githubToken, gitlabToken) ==
    IF repoInfo.Type = RepositoryTypeGitHub
    THEN IF githubToken = <<>>
         THEN [val |-> Nil, err |-> ErrMissingGitHubToken]
         ELSE [val |-> <<NewGitHubClientAdapter(githubToken)>>, err |-> "none"]
    ELSE IF repoInfo.Type = RepositoryTypeGitLab
    THEN IF gitlabToken = <<>>
         THEN [val |-> Nil, err |-> ErrMissingGitLabToken]
         ELSE [val |-> <<NewGitLabClient(gitlabToken, repoInfo.Host)>>, err |-> "none"]
    ELSE [val |-> Nil, err |-> ErrUnsupportedRepositoryType]

GitHubTokens == {<<>>, <<"g", "h", "p">>}
GitLabTokens == {<<>>, <<"g", "l", "p", "a", "t">>}

RepoInfos ==
    { [Owner |-> Owner, Name |-> Repo, Type |-> t, Host |-> h] :
        t \in {RepositoryTypeGitHub, RepositoryTypeGitLab, RepositoryTypeOther},
        h \in RemoteHosts }

InitClient ==
    /\ factoryArgs \in { <<[repoInfo |-> r, githubToken |-> gh, gitlabToken |-> gl]>> :
                           r \in RepoInfos, gh \in GitHubTokens, gl \in GitLabTokens }
    /\ client = Nil
    /\ clientCall = Nil

\* Step 4 of runGitReviewBlame.
Create ==
    /\ factoryArgs # Nil
    /\ client = Nil
    /\ client' = <<CreateClient(factoryArgs[1].repoInfo, factoryArgs[1].githubToken,
                                factoryArgs[1].gitlabToken)>>
    /\ UNCHANGED <<factoryArgs, clientCall, corrVars, parseVars, urlVars, fmtVars, mainVars>>

ClientReady == client # Nil /\ client[1].err = "none" /\ clientCall = Nil

\* client.FindPRByCommit(owner, repo, commitHash)
CallFindPRByCommit ==
    /\ ClientReady
    /\ \E cx \in CommitExchanges(client[1].val[1].kind) :
         clientCall' = <<[method |-> "FindPRByCommit", prNumber |-> 0,
                          commitX |-> <<cx>>, approvalsX |-> Nil,
                          res |-> FindPRByCommit(client[1].val[1].kind, cx)]>>
    /\ UNCHANGED <<factoryArgs, client, corrVars, parseVars, urlVars, fmtVars, mainVars>>

\* client.GetPRApprovals(owner, repo, prNumber)
CallGetPRApprovals ==
    /\ ClientReady
    /\ \E n \in {7, 12}, ax \in ApprovalExchanges(client[1].val[1].kind) :
         clientCall' = <<[method |-> "GetPRApprovals", prNumber |-> n,
                          commitX |-> Nil, approvalsX |-> <<ax>>,
                          res |-> GetPRApprovals(client[1].val[1].kind, ax)]>>
    /\ UNCHANGED <<factoryArgs, client, corrVars, parseVars, urlVars, fmtVars, mainVars>>

\* client.GetPRApprovalInfo(owner, repo, commitHash); the approvals exchange
\* exists only if the call issues the request.
CallGetPRApprovalInfo ==
    /\ ClientReady
    /\ \E cx \in CommitExchanges(client[1].val[1].kind),
          ax \in ApprovalExchanges(client[1].val[1].kind) :
         LET res == GetPRApprovalInfo(client[1].val[1].kind, cx, ax) IN
         clientCall' = <<[method |-> "GetPRApprovalInfo", prNumber |-> 0,
                          commitX |-> <<cx>>,
                          approvalsX |-> IF Len(res.requests) = 2 THEN <<ax>> ELSE Nil,
                          res |-> res]>>
    /\ UNCHANGED <<factoryArgs, client, corrVars, parseVars, urlVars, fmtVars, mainVars>>

InitForClient == IdleCorrelation /\ IdleParse /\ IdleURL /\ InitClient /\ IdleMain

NextClient ==
    Create \/ CallFindPRByCommit \/ CallGetPRApprovals \/ CallGetPRApprovalInfo

SpecClient == InitForClient /\ [][NextClient]_vars

(***************************************************************************)
(* FormatOutput on annotated lines given directly, as the formatter's own  *)
(* callers and tests give them.                                            *)
(***************************************************************************)
MaxFormatLines == 2    \* annotated lines handed to the formatter

Nines20 == Repeat("9", 20)

\* Blame lines: a plain timestamp, an empty email with a signed zero-padded
\* timestamp, a timestamp beyond int64, a timestamp that is no number.
FormatBlames ==
    { [CommitHash |-> HashA, Author |-> <<"A", "n", "n">>,
       AuthorEmail |-> <<"a", "@", "y">>, Date |-> <<"1", "7">>,
       Content |-> <<"x", " ", "y">>],
      [CommitHash |-> HashB, Author |-> <<"B", "e", "n">>,
       AuthorEmail |-> <<>>, Date |-> <<"+", "0", "7">>, Content |-> <<>>],
      [CommitHash |-> HashA, Author |-> <<"A", "n", "n">>,
       AuthorEmail |-> <<"a", "@", "y">>, Date |-> Nines20,
       Content |-> <<"x", " ", "y">>],
      [CommitHash |-> HashB, Author |-> <<"B", "e", "n">>,
       AuthorEmail |-> <<"b", "@", "y">>, Date |-> <<"1", "x">>,
       Content |-> <<"z">>] }

\* Annotations: none; a PR without approvals; a full approval; an approver
\* without email and time; an approval whose login is empty; an approver
\* with email and no time.
FormatApprovals ==
    { [PRNumber |-> 0, Approver |-> <<>>, ApproverEmail |-> <<>>,
       ApprovalTime |-> Nil],
      [PRNumber |-> 7, Approver |-> <<>>, ApproverEmail |-> <<>>,
       ApprovalTime |-> Nil],
      [PRNumber |-> 7, Approver |-> Alice, ApproverEmail |-> AliceMail,
       ApprovalTime |-> <<TimeIn(100, UTC)>>],
      [PRNumber |-> 12, Approver |-> Bob, ApproverEmail |-> <<>>,
       ApprovalTime |-> Nil],
      [PRNumber |-> 7, Approver |-> <<>>, ApproverEmail |-> AliceMail,
       ApprovalTime |-> <<TimeIn(100, UTC)>>],
      [PRNumber |-> 7, Approver |-> Alice, ApproverEmail |-> AliceMail,
       ApprovalTime |-> Nil] }

FormatLineOf(b, a, i) ==
    [BlameLine |-> [CommitHash |-> b.CommitHash, Author |-> b.Author,
                    AuthorEmail |-> b.AuthorEmail, Date |-> b.Date,
                    LineNumber |-> i, Content |-> b.Content],
     PRNumber |-> a.PRNumber, Approver |-> a.Approver,
     ApproverEmail |-> a.ApproverEmail, ApprovalTime |-> a.ApprovalTime]

FormatInputs(max) ==
    UNION { { [i \in 1..n |-> FormatLineOf(bs[i], as[i], i)] :
                bs \in [1..n -> FormatBlames], as \in [1..n -> FormatApprovals] } :
            n \in 0..max }

InitFormat ==
    /\ variant = "GitHub"
    /\ blameLines = <<>>
    /\ idx = 1
    /\ commitCache = <<>>
    /\ linesWithApprovals \in FormatInputs(MaxFormatLines)
    /\ fetchCalls = <<>>
    /\ pc = "format"
    /\ runs = 1
    /\ prevOutput = <<>>
    /\ formatted = Nil
    /\ formatter = <<NewOutputFormatter(FALSE, TRUE, FALSE)>>
    /\ local = Nil
    /\ args = Nil
    /\ gitRoot = Nil
    /\ stdout = <<>>

\* formatter.FormatOutput(lines)
FormatOutput ==
    /\ pc = "format"
    /\ IF LoadsLocal(formatter[1], linesWithApprovals)
       THEN \E z \in Zones : local' = <<z>>
       ELSE local' = local
    /\ formatted' = <<FormatOutputOf(formatter[1], ZoneOf(local'), linesWithApprovals)>>
    /\ pc' = "formatted"
    /\ UNCHANGED <<variant, blameLines, idx, commitCache, linesWithApprovals,
                   fetchCalls, runs, prevOutput, parseVars, urlVars, clientVars,
                   formatter, mainVars>>

InitForFormat == InitFormat /\ IdleParse /\ IdleURL /\ IdleClient

NextFormat == FormatOutput

SpecFormat == InitForFormat /\ [][NextFormat]_vars

(***************************************************************************)
(* FormatOutput of any formatter, on lines whose numbers need not start at *)
(* 1 (an excerpt of a file).                                               *)
(***************************************************************************)
MaxHumanLines == 2    \* annotated lines handed to the formatter

NewYear2021 == <<"1", "6", "0", "9", "4", "5", "9", "2", "0", "0">>
July2021 == <<"1", "6", "2", "5", "0", "9", "7", "6", "0", "0">>

Ann == <<"A", "n", "n">>
Ben == <<"B", "e", "n">>
Jose == <<"J", "o", "s", Byte(195), Byte(169)>>      \* "José": é is C3 A9

HumanBlameOf(hash, author, email, date, content) ==
    [CommitHash |-> hash, Author |-> author, AuthorEmail |-> email,
     Date |-> date, Content |-> content]

AnnAt17 == HumanBlameOf(HashA, Ann, <<"a", "@", "y">>, <<"1", "7">>, <<"x", " ", "y">>)
BenAtNewYear == HumanBlameOf(HashB, Ben, <<>>, NewYear2021, <<>>)

\* Blame lines whose timestamp is a small epoch, the first second of 2021,
\* no number, a signed zero-padded number, a number beyond int64, a day of
\* July 2021 (the last one of an author whose name is not ASCII).
HumanBlames ==
    { AnnAt17,
      BenAtNewYear,
      HumanBlameOf(HashA, Ann, <<"a", "@", "y">>, <<"1", "x">>, <<"z">>),
      HumanBlameOf(HashB, Ben, <<"b", "@", "y">>, <<"+", "0", "7">>, <<"z">>),
      HumanBlameOf(HashB, Ben, <<"b", "@", "y">>, Nines20, <<"z">>),
      HumanBlameOf(HashA, Jose, <<>>, July2021, <<"z">>) }

NoApproval ==
    [PRNumber |-> 0, Approver |-> <<>>, ApproverEmail |-> <<>>, ApprovalTime |-> Nil]

BobApproval ==
    [PRNumber |-> 12, Approver |-> Bob, ApproverEmail |-> <<>>, ApprovalTime |-> Nil]

\* Approvals: by Alice at 2021-01-03 00:00:00 UTC, the time in UTC, in
\* time.Local (made by time.Unix) and at +01:00; by Bob, without email and time.
HumanApprovals ==
    { [PRNumber |-> 7, Approver |-> Alice, ApproverEmail |-> AliceMail,
       ApprovalTime |-> <<TimeIn(1609632000, loc)>>] :
        loc \in {UTC, Local, FixedZone(3600)} }
    \cup { BobApproval }

\* The annotated lines: every blame line without approval, one of them with
\* each approval, and an author without email with an approver without email.
HumanLines ==
    { <<b, NoApproval>> : b \in HumanBlames }
    \cup { <<AnnAt17, a>> : a \in HumanApprovals }
    \cup { <<BenAtNewYear, BobApproval>> }

\* Line number of the first line handed over.
FirstLineNumbers == {1, 9}

HumanInputs(max) ==
    UNION { { [i \in 1..n |-> FormatLineOf(ls[i][1], ls[i][2], first + i - 1)] :
                ls \in [1..n -> HumanLines], first \in FirstLineNumbers } :
            n \in 0..max }

InitHuman ==
    /\ variant = "GitHub"
    /\ blameLines = <<>>
    /\ idx = 1
    /\ commitCache = <<>>
    /\ linesWithApprovals \in HumanInputs(MaxHumanLines)
    /\ fetchCalls = <<>>
    /\ pc = "format"
    /\ runs = 1
    /\ prevOutput = <<>>
    /\ formatted = Nil
    /\ formatter \in { <<NewOutputFormatter(e, p, FALSE)>> :
                         e \in BOOLEAN, p \in BOOLEAN }
    /\ local = Nil
    /\ args = Nil
    /\ gitRoot = Nil
    /\ stdout = <<>>

InitForHuman == InitHuman /\ IdleParse /\ IdleURL /\ IdleClient

SpecHuman == InitForHuman /\ [][NextFormat]_vars

(***************************************************************************)
(* The porcelain rendering read back by parseGitBlameOutput.  blameText    *)
(* describes the text by the annotated lines it is the rendering of; a     *)
(* described line is [line, fill], standing for the line with fill more    *)
(* 'x' characters at the end of its content.                               *)
(***************************************************************************)
\* Two lines, the first with a content just below or at the length at which
\* its rendered line no longer fits the Scanner's buffer.
LongContentInputs ==
    { << [line |-> FormatLineOf(
                     [CommitHash |-> HashA, Author |-> <<"A", "n", "n">>,
                      AuthorEmail |-> <<"a", "@", "y">>, Date |-> <<"1", "7">>,
                      Content |-> <<>>],
                     [PRNumber |-> 0, Approver |-> <<>>, ApproverEmail |-> <<>>,
                      ApprovalTime |-> Nil], 1),
           fill |-> n],
         [line |-> FormatLineOf(
                     [CommitHash |-> HashB, Author |-> <<"B", "e", "n">>,
                      AuthorEmail |-> <<>>, Date |-> <<"9">>, Content |-> <<"z">>],
                     [PRNumber |-> 7, Approver |-> Alice, ApproverEmail |-> AliceMail,
                      ApprovalTime |-> <<TimeIn(100, UTC)>>], 2),
           fill |-> 0] >> :
        n \in {MaxScanTokenSize - 2, MaxScanTokenSize - 1} }

RoundTripInputs(n) ==
    { [i \in 1..Len(ls) |-> [line |-> ls[i], fill |-> 0]] : ls \in FormatInputs(n) }
    \cup LongContentInputs

\* The annotated lines of a described input.
AnnotatedOf(d) ==
    [i \in 1..Len(d) |->
       [d[i].line EXCEPT !.BlameLine.Content = @ \o Repeat("x", d[i].fill)]]

InitRoundTrip ==
    /\ variant = "GitHub"
    /\ blameLines = <<>>
    /\ idx = 1
    /\ commitCache = <<>>
    /\ linesWithApprovals = <<>>
    /\ fetchCalls = <<>>
    /\ pc = "render"
    /\ runs = 1
    /\ prevOutput = <<>>
    /\ formatted = Nil
    /\ formatter = <<NewOutputFormatter(FALSE, TRUE, FALSE)>>
    /\ local = Nil
    /\ args = Nil
    /\ gitRoot = Nil
    /\ stdout = <<>>
    /\ blameText \in { <<[annotated |-> d]>> : d \in RoundTripInputs(MaxFormatLines) }
    /\ parsed = Nil

\* parseGitBlameOutput on the text FormatOutput returns for the lines.
RenderAndParse ==
    /\ pc = "render"
    /\ parsed = Nil
    /\ parsed' = <<parseGitBlameOutput(
                     FormatOutputOf(formatter[1], ZoneOf(local),
                                    AnnotatedOf(blameText[1].annotated)))>>
    /\ UNCHANGED <<blameText, corrVars, urlVars, clientVars, fmtVars, mainVars>>

InitForRoundTrip == InitRoundTrip /\ IdleURL /\ IdleClient

NextRoundTrip == RenderAndParse

SpecRoundTrip == InitForRoundTrip /\ [][NextRoundTrip]_vars

(***************************************************************************)
(* runGitReviewBlame from its first step.  What git prints for the remote  *)
(* and for the blame, whether the file lies in a repository and the tokens *)
(* of the environment are drawn where the code reads them; pc is the step  *)
(* to run next, "failed" after a return with an error.                     *)
(***************************************************************************)
ErrNotGitRepo == "not a git repository"
ErrExit == "exit status 128"

\* if err != nil { return ... }: on an error ending the invocation.
AfterStepIgnoringErrors(next, err) == next

AfterStep(next, err) == IF err = "none" THEN next ELSE "failed"

\* Remotes(MaxPathSegments) of origin: GitHub over SSH, a self-hosted GitLab over HTTPS, a
\* remote that is no repository URL.
MainRemotes(n) ==
    { r \in Remotes(n) :
        /\ r.segs = <<Owner, Repo>>
        /\ r.path = JoinPath(r.segs, 1) \o DotGit
        /\ r.url # RemoteString(r.form, r.user, r.host, r.path)
        /\ \/ r.form = "ssh" /\ r.user = <<"g", "i", "t">> /\ r.host = GitHubCom
           \/ r.form = "https" /\ r.host = GitLabExampleCom
           \/ r.form = "ftp" /\ r.host = GitLabCom }

\* The blamed files of a whole run, by the commits of their lines: an empty
\* file, one line, two lines of one commit, two lines of two commits.
MainBlameFiles ==
    { <<>>, <<HashA>>, <<HashA, HashA>>, <<HashB, HashA>> }

\* The outputs of the git blame command run with the flag given.
MainBlameTexts(porcelain) ==
    { [lines |-> Plain(GitBlameLines(hs, 1, porcelain)), style |-> "lf-final"] :
        hs \in MainBlameFiles }

InitMain ==
    /\ variant = "GitHub"
    /\ blameLines = <<>>
    /\ idx = 1
    /\ commitCache = <<>>
    /\ linesWithApprovals = <<>>
    /\ fetchCalls = <<>>
    /\ pc = "root"
    /\ runs = 1
    /\ prevOutput = <<>>
    /\ formatted = Nil
    /\ formatter = Nil
    /\ local = Nil
    /\ args \in { <<[porcelain |-> p, showEmail |-> e]>> : p \in BOOLEAN, e \in BOOLEAN }
    /\ gitRoot = Nil
    /\ stdout = <<>>

\* 1. Find git repository root
Step1FindGitRoot ==
    /\ pc = "root"
    /\ \E r \in { [val |-> <<"/", "r">>, err |-> "none"],
                  [val |-> <<>>, err |-> ErrNotGitRepo] } :
         /\ gitRoot' = <<r>>
         /\ pc' = AfterStep("remote", r.err)
    /\ UNCHANGED <<variant, blameLines, idx, commitCache, linesWithApprovals,
                   fetchCalls, runs, prevOutput, formatted, parseVars, urlVars,
                   clientVars, fmtVars, args, stdout>>

\* 2. Extract repository information from git remote
Step2ExtractRepoInfo ==
    /\ pc = "remote"
    /\ \/ \E r \in MainRemotes(MaxPathSegments) :
            /\ remote' = <<r>>
            /\ resolved' = <<parseRepositoryURL(TrimSpace(r.url))>>
       \/ /\ remote' = Nil
          /\ resolved' = <<[info |-> Nil, err |-> ErrExit]>>
    /\ pc' = AfterStep("blame", resolved'[1].err)
    /\ UNCHANGED <<variant, blameLines, idx, commitCache, linesWithApprovals,
                   fetchCalls, runs, prevOutput, formatted, parseVars,
                   clientVars, fmtVars, mainVars>>

\* 3. Execute git blame on the file
Step3ExecuteGitBlame ==
    /\ pc = "blame"
    /\ \/ \E t \in MainBlameTexts(args[1].porcelain) :
            /\ blameText' = <<t>>
            /\ parsed' = <<parseGitBlameOutput(TextOf(t))>>
       \/ /\ blameText' = Nil
          /\ parsed' = <<[lines |-> <<>>, err |-> ErrExit]>>
    /\ blameLines' = IF parsed'[1].err = "none" THEN parsed'[1].lines ELSE blameLines
    /\ pc' = AfterStep("client", parsed'[1].err)
    /\ UNCHANGED <<variant, idx, commitCache, linesWithApprovals,
                   fetchCalls, runs, prevOutput, formatted, urlVars,
                   clientVars, fmtVars, mainVars>>

\* 4. Create appropriate client based on repository type
Step4CreateClient ==
    /\ pc = "client"
    /\ \E gh \in GitHubTokens, gl \in GitLabTokens :
         /\ factoryArgs' = <<[repoInfo |-> resolved[1].info[1], githubToken |-> gh,
                              gitlabToken |-> gl]>>
         /\ client' = <<CreateClient(resolved[1].info[1], gh, gl)>>
    /\ variant' = IF client'[1].err = "none" THEN client'[1].val[1].kind ELSE variant
    /\ pc' = AfterStep("correlate", client'[1].err)
    /\ UNCHANGED <<blameLines, idx, commitCache, linesWithApprovals,
                   fetchCalls, runs, prevOutput, formatted, parseVars, urlVars,
                   clientCall, fmtVars, mainVars>>

InitForMain == InitMain /\ IdleParse /\ IdleURL /\ IdleClient

NextMain ==
    \/ Step1FindGitRoot
    \/ Step2ExtractRepoInfo
    \/ Step3ExecuteGitBlame
    \/ Step4CreateClient
    \/ CorrelateCached
    \/ CorrelateFetch
    \/ FinishCorrelation

SpecMain == InitForMain /\ [][NextMain]_vars

(***************************************************************************)
(* Properties of the correlation loop.                                     *)
(***************************************************************************)
HashesUpTo(k) == { blameLines[i].CommitHash : i \in 1..k }

FirstLineOf(h) ==
    MinOf({ i \in 1..Len(blameLines) : blameLines[i].CommitHash = h })

CallsOfRun(r) == SelectSeq(fetchCalls, LAMBDA c : c.run = r)

\* The GetPRApprovalInfo call that decided commit h (the first one for h).
CallFor(h) ==
    fetchCalls[MinOf({ k \in 1..Len(fetchCalls) : fetchCalls[k].CommitHash = h })]

Unannotated(l) ==
    /\ l.PRNumber = 0
    /\ l.Approver = <<>>
    /\ l.ApproverEmail = <<>>
    /\ l.ApprovalTime = Nil

NoApprover(l) ==
    /\ l.Approver = <<>>
    /\ l.ApproverEmail = <<>>
    /\ l.ApprovalTime = Nil

\* C1: one run over N lines with K distinct commit hashes calls
\* GetPRApprovalInfo exactly K times: once per distinct hash, at the first
\* line that carries it, never again for that hash, whether the fetch
\* succeeded or failed.
C1_OneFetchPerCommit ==
    runs = 1 =>
      /\ Len(fetchCalls) = Cardinality(HashesUpTo(idx - 1))
      /\ \A j, k \in 1..Len(fetchCalls) :
           j # k => fetchCalls[j].CommitHash # fetchCalls[k].CommitHash
      /\ \A k \in 1..Len(fetchCalls) :
           fetchCalls[k].line = FirstLineOf(fetchCalls[k].CommitHash)
      /\ pc = "done" =>
           Len(fetchCalls) = Cardinality(HashesUpTo(Len(blameLines)))

\* C1 witness: a finished run of 3 lines over 2 commits, the repeated commit
\* being one whose fetch failed.
C1_Witness ==
    /\ pc = "done"
    /\ Len(blameLines) = 3
    /\ Len(fetchCalls) = 2
    /\ \E k \in 1..2 :
         /\ fetchCalls[k].err # "none"
         /\ \E i \in 1..3 : /\ i > fetchCalls[k].line
                            /\ blameLines[i].CommitHash = fetchCalls[k].CommitHash

\* C2: whatever the fetches return, the loop runs to completion and yields
\* one annotated line per blame line, in order, the i-th embedding the i-th
\* BlameLine unchanged; a failed fetch never stops later lines.
C2_SameLengthAndOrder ==
    /\ Len(linesWithApprovals) = idx - 1
    /\ \A i \in 1..Len(linesWithApprovals) :
         linesWithApprovals[i].BlameLine = blameLines[i]
    /\ pc = "done" => Len(linesWithApprovals) = Len(blameLines)
    /\ pc = "correlate" => ENABLED Next

\* C2 witness: a finished run of 3 lines in which the first fetch failed and
\* a later line of another commit was still fetched and annotated.
C2_Witness ==
    /\ pc = "done"
    /\ Len(linesWithApprovals) = 3
    /\ Len(fetchCalls) = 2
    /\ fetchCalls[1].err \in {"transport", "api", "nopr"}
    /\ fetchCalls[2].err = "none"
    /\ linesWithApprovals[3].PRNumber > 0

\* C3: when the fetch for a line's commit succeeded with a non-empty approval
\* list, the line's approver name, email and time are those of the LAST
\* record in provider order and its PR number is the PR's, for the line that
\* triggered the fetch and for the lines served from the cache.
C3_LastApproverWins ==
    \A i \in 1..Len(linesWithApprovals) :
      LET c == CallFor(blameLines[i].CommitHash) IN
      (c.err = "none" /\ Len(c.val[1].Approvers) > 0) =>
        LET last == c.val[1].Approvers[Len(c.val[1].Approvers)] IN
        /\ linesWithApprovals[i].Approver = last.User.Login
        /\ linesWithApprovals[i].ApproverEmail = last.User.Email
        /\ linesWithApprovals[i].ApprovalTime = last.SubmittedAt
        /\ linesWithApprovals[i].PRNumber = c.val[1].PR.Number

\* C3 witness: a line served from the cache whose commit has two approvals,
\* the last one in provider order being the OLDER one, and the line shows it.
C3_Witness ==
    \E i \in 1..Len(linesWithApprovals) :
      LET c == CallFor(blameLines[i].CommitHash) IN
      /\ c.line < i
      /\ c.err = "none"
      /\ Len(c.val[1].Approvers) = 2
      /\ c.val[1].Approvers[1].SubmittedAt = <<TimeIn(100, UTC)>>
      /\ c.val[1].Approvers[2].SubmittedAt = <<TimeIn(50, FixedZone(3600))>>
      /\ linesWithApprovals[i].Approver = Bob
      /\ linesWithApprovals[i].ApprovalTime = <<TimeIn(50, FixedZone(3600))>>

\* C4: when the fetch for a line's commit succeeded with an empty approval
\* list, the line carries the PR number only; approver name, email and time
\* stay unset.
C4_NoApprovalsPROnly ==
    \A i \in 1..Len(linesWithApprovals) :
      LET c == CallFor(blameLines[i].CommitHash) IN
      (c.err = "none" /\ Len(c.val[1].Approvers) = 0) =>
        /\ linesWithApprovals[i].PRNumber = c.val[1].PR.Number
        /\ NoApprover(linesWithApprovals[i])

\* C4 witness: a fetched line and a cached line of a commit whose PR 7 has no
\* approval, both carrying PR number 7 and no approver.
C4_Witness ==
    \E i, j \in 1..Len(linesWithApprovals) :
      LET c == CallFor(blameLines[i].CommitHash) IN
      /\ c.line = i
      /\ j > i
      /\ blameLines[j].CommitHash = blameLines[i].CommitHash
      /\ c.err = "none"
      /\ c.val[1].Approvers = <<>>
      /\ linesWithApprovals[i].PRNumber = 7
      /\ linesWithApprovals[j].PRNumber = 7
      /\ NoApprover(linesWithApprovals[j])

\* C5: when GetPRApprovalInfo failed for a commit (no PR, API error or
\* transport error), every line of that commit, the first and the cached
\* ones, carries no PR number and no approver name, email or time.
C5_FailureLeavesLineBare ==
    \A i \in 1..Len(linesWithApprovals) :
      LET c == CallFor(blameLines[i].CommitHash) IN
      c.err # "none" => Unannotated(linesWithApprovals[i])

\* C5 witness: after a successful fetch for one commit, the fetch for another
\* commit failed and a later line of that commit was served from the cache.
C5_Witness ==
    /\ Len(linesWithApprovals) = 3
    /\ Len(fetchCalls) = 2
    /\ fetchCalls[1].err = "none"
    /\ fetchCalls[2].err \in {"transport", "api", "nopr"}
    /\ fetchCalls[2].line = 2
    /\ blameLines[3].CommitHash = blameLines[2].CommitHash
    /\ Unannotated(linesWithApprovals[3])

\* C6: a second run of the loop over the same blame lines with the cache left
\* by the first run issues no GetPRApprovalInfo call and yields the same
\* annotated sequence, also for commits whose first fetch failed.
C6_SecondRunFromCache ==
    runs = 2 =>
      /\ CallsOfRun(2) = <<>>
      /\ linesWithApprovals = SubSeq(prevOutput, 1, Len(linesWithApprovals))
      /\ pc = "done" => linesWithApprovals = prevOutput

\* C6 witness: a finished second run over 3 lines whose first run had one
\* failed and one successful fetch.
C6_Witness ==
    /\ runs = 2
    /\ pc = "done"
    /\ Len(prevOutput) = 3
    /\ \E j, k \in 1..Len(fetchCalls) :
         fetchCalls[j].err # "none" /\ fetchCalls[k].err = "none"

(***************************************************************************)
(* Properties of parseGitBlameOutput.                                      *)
(***************************************************************************)
\* A record-start line as the specification words it: the first 40
\* characters are all hexadecimal digits.
RecordStartLine(l) == Len(l) >= 40 /\ \A i \in 1..40 : l[i] \in HexDigits

\* Positions of the record-start lines of the text, in order.
StartPositions(src) == SortedSeq({k \in 1..Len(src) : RecordStartLine(src[k])})

\* The lines of the text that belong to its i-th record.
BlockOf(src, i) ==
    LET sp == StartPositions(src) IN
    SubSeq(src, sp[i] + 1, IF i < Len(sp) THEN sp[i + 1] - 1 ELSE Len(src))

ContentLines(block) == SelectSeq(block, LAMBDA l : HasPrefix(l, Tab))

MailLinesOf(block) == SelectSeq(block, LAMBDA l : HasPrefix(l, AuthorMailPrefix))

RecordsMatchStartLines(src, lines) ==
    /\ Len(lines) = Len(StartPositions(src))
    /\ \A i \in 1..Len(lines) :
         /\ lines[i].LineNumber = i
         /\ i <= Len(StartPositions(src)) =>
              /\ SubSeq(lines[i].CommitHash, 1, 40)
                   = SubSeq(src[StartPositions(src)[i]], 1, 40)
              /\ LET content == ContentLines(BlockOf(src, i)) IN
                 (content # <<>> /\ content[Len(content)] = Tab)
                    => lines[i].Content = <<>>

\* C7: for any blame text, parseGitBlameOutput returns exactly as many
\* records as the text has record-start lines, in order of appearance, the
\* i-th record having LineNumber i; a record whose content line is a lone
\* tab is still produced, with empty Content.
C7_RecordPerStartLine ==
    parsed # Nil => RecordsMatchStartLines(SourceLines(blameText[1]), parsed[1].lines)

\* The statement of C7 for the texts the Scanner reads to the end.
RecordPerStartLineWhenScanned ==
    (parsed # Nil /\ parsed[1].err = "none")
       => RecordsMatchStartLines(SourceLines(blameText[1]), parsed[1].lines)

\* Three records, the second with a lone tab as content, numbered 1, 2, 3.
RecordPerStartLineReached ==
    /\ parsed # Nil
    /\ parsed[1].err = "none"
    /\ SourceLines(blameText[1]) = <<HeaderA, HashB, Tab>>
    /\ Len(parsed[1].lines) = 2
    /\ parsed[1].lines[2].Content = <<>>

\* The author email the specification prescribes for the remainder of an
\* author-mail line: trimmed, then without one leading '<' and one trailing
\* '>' whenever both are present.
StrippedMail(rest) ==
    LET t == TrimSpace(rest) IN
    IF t # <<>> /\ t[1] = "<" /\ t[Len(t)] = ">" /\ Len(t) >= 2
    THEN SubSeq(t, 2, Len(t) - 1)
    ELSE t

\* C8: for every author-mail line, the stored author email is the remainder
\* of the line, trimmed, and with one leading '<' and one trailing '>'
\* removed whenever the trimmed value starts with '<' and ends with '>'
\* (so that '<>' is stored as the empty string).
C8_AuthorMailStripped ==
    (parsed # Nil /\ parsed[1].err = "none") =>
      \A i \in 1..Len(parsed[1].lines) :
        LET mails == MailLinesOf(BlockOf(SourceLines(blameText[1]), i)) IN
        mails # <<>> =>
          parsed[1].lines[i].AuthorEmail
            = StrippedMail(Slice(mails[Len(mails)], 12, Len(mails[Len(mails)])))

(***************************************************************************)
(* Properties of parseRepositoryURL.                                       *)
(***************************************************************************)
Accepted == resolved # Nil /\ resolved[1].err = "none"

\* C9: for every accepted remote, the type is GitHub exactly when the host is
\* github.com, in the SSH form for any user as well as in the http and https
\* forms, and GitLab for every other host; Host is the host of the remote.
C9_GitHubIffHostGitHub ==
    Accepted =>
      /\ resolved[1].info[1].Host = remote[1].host
      /\ resolved[1].info[1].Type =
           IF remote[1].host = GitHubCom THEN RepositoryTypeGitHub
           ELSE RepositoryTypeGitLab

\* C10: in every RepoInfo returned, neither Owner nor Name ends with '.git'
\* or contains a '/', also for remotes with segments after the repository
\* name (owner/repo.git/tree/main).
C10_NoSuffixNoSegments ==
    Accepted =>
      /\ ~HasSuffix(resolved[1].info[1].Owner, DotGit)
      /\ ~HasSuffix(resolved[1].info[1].Name, DotGit)
      /\ ~Contains(resolved[1].info[1].Owner, <<"/">>)
      /\ ~Contains(resolved[1].info[1].Name, <<"/">>)

\* The '/'-separated segments of a remote's path once the trailing '.git' is
\* removed, read off the segments the remote was put together from.
TrimmedSegments(r) ==
    IF Len(r.path) > Len(JoinPath(r.segs, 1)) THEN r.segs
    ELSE IF r.segs # <<>> /\ HasSuffix(r.segs[Len(r.segs)], DotGit)
    THEN [r.segs EXCEPT ![Len(r.segs)] = TrimSuffix(r.segs[Len(r.segs)], DotGit)]
    ELSE r.segs

NonEmptySegments(r) == SelectSeq(TrimmedSegments(r), LAMBDA sg : sg # <<>>)

\* C11: Owner and Name of every RepoInfo returned are the first two non-empty
\* segments of the path (trailing '.git' removed), further segments ignored;
\* so both are non-empty, also with a leading, doubled or trailing '/'.
C11_FirstTwoNonEmptySegments ==
    Accepted =>
      /\ resolved[1].info[1].Owner # <<>>
      /\ resolved[1].info[1].Name # <<>>
      /\ Len(NonEmptySegments(remote[1])) >= 2 =>
           /\ resolved[1].info[1].Owner = NonEmptySegments(remote[1])[1]
           /\ resolved[1].info[1].Name = NonEmptySegments(remote[1])[2]

\* Owner and Name are the first two segments, empty or not, of the path.
FirstTwoSegmentsAsSplit ==
    Accepted =>
      /\ Len(TrimmedSegments(remote[1])) >= 2
      /\ resolved[1].info[1].Owner = TrimmedSegments(remote[1])[1]
      /\ resolved[1].info[1].Name = TrimmedSegments(remote[1])[2]

FirstTwoSegmentsReached ==
    /\ Accepted
    /\ Len(remote[1].segs) = 3
    /\ NonEmptySegments(remote[1]) = remote[1].segs

SupportedShape(r) == r.form \in {"ssh", "https", "http"}

\* C12: an empty remote, a remote with fewer than two path segments and a
\* remote that is neither user@host:path nor an http(s) URL each yield an
\* error and no RepoInfo; no result carries both a RepoInfo and an error.
C12_InvalidRemoteFails ==
    resolved # Nil =>
      /\ (resolved[1].info = Nil) <=> (resolved[1].err # "none")
      /\ ( \/ remote[1].form = "empty"
           \/ Len(NonEmptySegments(remote[1])) < 2
           \/ ~SupportedShape(remote[1]) )
         => resolved[1].err # "none" /\ resolved[1].info = Nil

\* The same with a segment counted whether or not it is empty.
InvalidRemoteFailsAsSplit ==
    resolved # Nil =>
      /\ (resolved[1].info = Nil) <=> (resolved[1].err # "none")
      /\ ( \/ remote[1].form = "empty"
           \/ Len(TrimmedSegments(remote[1])) < 2
           \/ ~SupportedShape(remote[1]) )
         => resolved[1].err # "none" /\ resolved[1].info = Nil

InvalidRemoteFailsReached ==
    /\ resolved # Nil
    /\ resolved[1].err # "none"
    /\ remote[1].form = "ftp"
    /\ Len(NonEmptySegments(remote[1])) = 2

(***************************************************************************)
(* Properties of CreateClient and of the two clients.                      *)
(***************************************************************************)
\* C13: CreateClient returns a client exactly when the token of the
\* RepoInfo's own provider is non-empty, whatever the other token is; a
\* GitHub repository without GitHub token yields the missing-GitHub-token
\* error, a GitLab repository without GitLab token the missing-GitLab-token
\* error, any other type the unsupported-type error; on every error the
\* client is nil.
C13_ClientIffMatchingToken ==
    client # Nil =>
      LET a == factoryArgs[1]
          r == client[1]
      IN /\ (r.err = "none") <=>
              \/ a.repoInfo.Type = RepositoryTypeGitHub /\ a.githubToken # <<>>
              \/ a.repoInfo.Type = RepositoryTypeGitLab /\ a.gitlabToken # <<>>
         /\ (r.val # Nil) <=> (r.err = "none")
         /\ (a.repoInfo.Type = RepositoryTypeGitHub /\ a.githubToken = <<>>)
              => r.err = ErrMissingGitHubToken
         /\ (a.repoInfo.Type = RepositoryTypeGitLab /\ a.gitlabToken = <<>>)
              => r.err = ErrMissingGitLabToken
         /\ a.repoInfo.Type \notin {RepositoryTypeGitHub, RepositoryTypeGitLab}
              => r.err = ErrUnsupportedRepositoryType

\* C13 witness: a GitHub repository, only the GitLab token set: no client.
C13_Witness ==
    /\ client # Nil
    /\ factoryArgs[1].repoInfo.Type = RepositoryTypeGitHub
    /\ factoryArgs[1].githubToken = <<>>
    /\ factoryArgs[1].gitlabToken # <<>>
    /\ client[1].err = ErrMissingGitHubToken
    /\ client[1].val = Nil

\* The provider answered the commit request with status 200 and an empty list.
EmptyProviderList(c) ==
    /\ c.commitX # Nil
    /\ c.commitX[1].fail = "none"
    /\ c.commitX[1].status = 200
    /\ c.commitX[1].body = <<>>

\* C14: with an empty provider list FindPRByCommit returns (nil, no error);
\* GetPRApprovalInfo then returns an error and no ApprovalInfo, and has not
\* requested the approvals endpoint.  Both variants.
C14_AbsentPRIsAnError ==
    clientCall # Nil =>
      LET c == clientCall[1] IN
      /\ (c.method = "FindPRByCommit" /\ EmptyProviderList(c))
           => c.res.val = Nil /\ c.res.err = "none"
      /\ (c.method = "GetPRApprovalInfo" /\ EmptyProviderList(c))
           => /\ c.res.err # "none"
              /\ c.res.val = Nil
              /\ \A i \in 1..Len(c.res.requests) :
                   c.res.requests[i].endpoint # "approvals"
              /\ c.approvalsX = Nil

\* C14 witness: GetPRApprovalInfo of the GitLab client on an empty list.
C14_Witness ==
    /\ clientCall # Nil
    /\ client[1].val[1].kind = "GitLab"
    /\ clientCall[1].method = "GetPRApprovalInfo"
    /\ EmptyProviderList(clientCall[1])
    /\ clientCall[1].res.err = "nopr"

\* out is the subsequence of in made of exactly the elements satisfying Keep.
IsFilteredSubsequence(out, in, Keep(_)) ==
    \E f \in [1..Len(out) -> 1..Len(in)] :
      /\ \A i, j \in 1..Len(out) : i < j => f[i] < f[j]
      /\ \A i \in 1..Len(out) : out[i] = in[f[i]] /\ Keep(in[f[i]])
      /\ \A k \in 1..Len(in) : Keep(in[k]) => \E i \in 1..Len(out) : f[i] = k

IsApprovedReview(r) == r.State = "APPROVED"

ReviewsAnswered(c) ==
    /\ c.approvalsX # Nil
    /\ c.approvalsX[1].fail = "none"
    /\ c.approvalsX[1].status = 200

\* C15: the GitHub client's GetPRApprovals returns exactly the reviews of the
\* provider's list whose state is APPROVED, in the provider's order, none
\* dropped, duplicated or reordered (also as Approvers of GetPRApprovalInfo).
C15_GitHubKeepsApprovedInOrder ==
    (clientCall # Nil /\ client[1].val[1].kind = "GitHub") =>
      LET c == clientCall[1] IN
      /\ (c.method = "GetPRApprovals" /\ ReviewsAnswered(c))
           => /\ c.res.err = "none"
              /\ IsFilteredSubsequence(c.res.val, c.approvalsX[1].body,
                                       IsApprovedReview)
      /\ (c.method = "GetPRApprovalInfo" /\ ReviewsAnswered(c))
           => /\ c.res.err = "none"
              /\ IsFilteredSubsequence(c.res.val[1].Approvers,
                                       c.approvalsX[1].body, IsApprovedReview)

\* C15 witness: a COMMENTED review before an APPROVED one; one review is kept.
C15_Witness ==
    /\ clientCall # Nil
    /\ client[1].val[1].kind = "GitHub"
    /\ clientCall[1].method = "GetPRApprovals"
    /\ ReviewsAnswered(clientCall[1])
    /\ Len(clientCall[1].approvalsX[1].body) = 2
    /\ clientCall[1].approvalsX[1].body[1].State = "COMMENTED"
    /\ clientCall[1].approvalsX[1].body[2].State = "APPROVED"
    /\ Len(clientCall[1].res.val) = 1

\* C16: the GitLab client's GetPRApprovals returns one record per entry of
\* approved_by, none filtered out, in the order returned; FindPRByCommit
\* gives the first merge request's iid as the PR number, and
\* GetPRApprovalInfo requests the approvals of that number.
C16_GitLabKeepsAllAndUsesIID ==
    (clientCall # Nil /\ client[1].val[1].kind = "GitLab") =>
      LET c == clientCall[1] IN
      /\ (c.method \in {"GetPRApprovals", "GetPRApprovalInfo"} /\ ReviewsAnswered(c))
           => LET got == IF c.method = "GetPRApprovals" THEN c.res.val
                         ELSE c.res.val[1].Approvers
                  by == c.approvalsX[1].body
              IN /\ Len(got) = Len(by)
                 /\ \A i \in 1..Len(by) :
                      /\ got[i].User.Login = by[i].User.Username
                      /\ got[i].User.Email = by[i].User.Email
                      /\ got[i].SubmittedAt = by[i].CreatedAt
      /\ (c.method \in {"FindPRByCommit", "GetPRApprovalInfo"}
          /\ c.commitX[1].fail = "none" /\ c.commitX[1].status = 200
          /\ c.commitX[1].body # <<>>)
           => /\ c.method = "FindPRByCommit"
                   => c.res.val[1].Number = c.commitX[1].body[1].IID
              /\ c.method = "GetPRApprovalInfo"
                   => /\ Len(c.res.requests) = 2
                      /\ c.res.requests[2] =
                           [endpoint |-> "approvals",
                            number |-> c.commitX[1].body[1].IID]
                      /\ c.res.err = "none"
                           => c.res.val[1].PR.Number = c.commitX[1].body[1].IID

\* C16 witness: two merge requests with different iids, two approved_by
\* entries; the approvals of the first iid are requested and both are kept.
C16_Witness ==
    /\ clientCall # Nil
    /\ client[1].val[1].kind = "GitLab"
    /\ clientCall[1].method = "GetPRApprovalInfo"
    /\ Len(clientCall[1].commitX[1].body) = 2
    /\ clientCall[1].commitX[1].body[1].IID = 12
    /\ clientCall[1].commitX[1].body[2].IID = 7
    /\ ReviewsAnswered(clientCall[1])
    /\ Len(clientCall[1].approvalsX[1].body) = 2
    /\ clientCall[1].res.requests[2].number = 12
    /\ Len(clientCall[1].res.val[1].Approvers) = 2

(***************************************************************************)
(* Properties of the porcelain rendering.                                  *)
(***************************************************************************)
\* The text from position start on, cut at its newlines, whose positions
\* are nl (the piece after the last newline included).
RECURSIVE LinesFrom(_, _, _)
LinesFrom(text, nl, start) ==
    LET rest == {k \in nl : k >= start} IN
    IF rest = {} THEN <<SubSeq(text, start, Len(text))>>
    ELSE LET e == MinOf(rest) IN
         <<SubSeq(text, start, e - 1)>> \o LinesFrom(text, nl, e + 1)

\* The blocks of the rendered text: the lines after each header line, up to
\* the next header line.
FormattedBlocks ==
    LET text == formatted[1]
        fl == LinesFrom(text, {k \in 1..Len(text) : text[k] = "\n"}, 1)
        sp == StartPositions(fl)
    IN [i \in 1..Len(sp) |->
          SubSeq(fl, sp[i] + 1, IF i < Len(sp) THEN sp[i + 1] - 1 ELSE Len(fl))]

\* The lines of the i-th block that start with label.
Labelled(blocks, i, label) ==
    SelectSeq(blocks[i], LAMBDA l : HasPrefix(l, label))

InAngles(mail) == <<"<">> \o mail \o <<">">>

\* C17: every block has exactly one author line; it carries the approver's
\* name when the line has one and the commit author's name otherwise.  A
\* line with approver name, email and time renders the three lines 'author
\* <name>', 'author-mail <<email>>', 'author-time <epoch>', and a block with
\* the approver's name holds no author-mail line other than the approver's.
C17_OneAuthorLineApproverFirst ==
    formatted # Nil =>
      LET blocks == FormattedBlocks IN
      /\ Len(blocks) = Len(linesWithApprovals)
      /\ \A i \in 1..Len(linesWithApprovals) :
           LET l == linesWithApprovals[i] IN
           /\ Labelled(blocks, i, AuthorLabel) =
                << AuthorLabel \o (IF l.Approver # <<>> THEN l.Approver
                                   ELSE l.BlameLine.Author) >>
           /\ (l.Approver # <<>> /\ l.ApproverEmail # <<>> /\ l.ApprovalTime # Nil)
                => /\ Labelled(blocks, i, AuthorMailLabel) =
                        << AuthorMailLabel \o InAngles(l.ApproverEmail) >>
                   /\ Labelled(blocks, i, AuthorTimeLabel) =
                        << AuthorTimeLabel \o Itoa(UnixOf(l.ApprovalTime[1])) >>
           /\ l.Approver # <<>>
                => \A k \in 1..Len(Labelled(blocks, i, AuthorMailLabel)) :
                     Labelled(blocks, i, AuthorMailLabel)[k]
                       = AuthorMailLabel \o InAngles(l.ApproverEmail)

\* C17 witness: two lines rendered, the first approved by alice <a@x.io> at
\* 100, the second by an approver without email on a commit whose author has
\* one.
C17_Witness ==
    /\ formatted # Nil
    /\ pc = "formatted"
    /\ Len(linesWithApprovals) = 2
    /\ LET blocks == FormattedBlocks IN
       /\ linesWithApprovals[1].Approver = Alice
       /\ linesWithApprovals[1].ApprovalTime = <<TimeIn(100, UTC)>>
       /\ Labelled(blocks, 1, AuthorLabel) = <<AuthorLabel \o Alice>>
       /\ Labelled(blocks, 1, AuthorMailLabel) = <<AuthorMailLabel \o InAngles(AliceMail)>>
       /\ Labelled(blocks, 1, AuthorTimeLabel) = <<AuthorTimeLabel \o <<"1", "0", "0">> >>
       /\ linesWithApprovals[2].Approver = Bob
       /\ linesWithApprovals[2].BlameLine.AuthorEmail # <<>>
       /\ Labelled(blocks, 2, AuthorMailLabel) = <<>>

\* The email of the identity the author line names.
IdentityEmail(l) ==
    IF l.Approver # <<>> THEN l.ApproverEmail ELSE l.BlameLine.AuthorEmail

\* C18: a block holds an author-mail line only if the identity of its author
\* line has a non-empty email, and the line is then that email in angle
\* brackets; no block holds an author-mail line with an empty value.
C18_AuthorMailOnlyWithEmail ==
    formatted # Nil =>
      LET blocks == FormattedBlocks IN
      \A i \in 1..Len(linesWithApprovals) :
        LET l == linesWithApprovals[i] IN
        \A k \in 1..Len(Labelled(blocks, i, AuthorMailLabel)) :
          /\ IdentityEmail(l) # <<>>
          /\ Labelled(blocks, i, AuthorMailLabel)[k]
               = AuthorMailLabel \o InAngles(IdentityEmail(l))

\* The same for the blocks whose author line names the approver.
AuthorMailOnlyWithEmailOfApprover ==
    formatted # Nil =>
      LET blocks == FormattedBlocks IN
      \A i \in 1..Len(linesWithApprovals) :
        LET l == linesWithApprovals[i] IN
        l.Approver # <<>> =>
          \A k \in 1..Len(Labelled(blocks, i, AuthorMailLabel)) :
            /\ IdentityEmail(l) # <<>>
            /\ Labelled(blocks, i, AuthorMailLabel)[k]
                 = AuthorMailLabel \o InAngles(IdentityEmail(l))

\* What an integer timestamp string renders as, Nil when it is no int64.
EpochOfDate(date) ==
    IF date = <<"1", "7">> THEN <<date>>
    ELSE IF date = <<"9">> THEN <<date>>
    ELSE IF date = <<"+", "0", "7">> THEN << <<"7">> >>
    ELSE Nil

\* C19: a block holds the author-time line of the approval time whenever the
\* line has one, otherwise that of the commit timestamp whenever it parses
\* as an integer; the line is missing only when there is no approval time
\* and the commit timestamp does not parse.
C19_AuthorTimeApprovalFirst ==
    formatted # Nil =>
      LET blocks == FormattedBlocks IN
      \A i \in 1..Len(linesWithApprovals) :
        LET l == linesWithApprovals[i] IN
        /\ l.ApprovalTime # Nil
             => Labelled(blocks, i, AuthorTimeLabel)
                  = << AuthorTimeLabel \o Itoa(UnixOf(l.ApprovalTime[1])) >>
        /\ (l.ApprovalTime = Nil /\ EpochOfDate(l.BlameLine.Date) # Nil)
             => Labelled(blocks, i, AuthorTimeLabel)
                  = << AuthorTimeLabel \o EpochOfDate(l.BlameLine.Date)[1] >>
        /\ (l.ApprovalTime = Nil /\ EpochOfDate(l.BlameLine.Date) = Nil)
             => Labelled(blocks, i, AuthorTimeLabel) = <<>>

\* The same where the approver's name and the approval time are both set or
\* both unset.
AuthorTimeWhenNameAndTimeAgree ==
    formatted # Nil =>
      LET blocks == FormattedBlocks IN
      \A i \in 1..Len(linesWithApprovals) :
        LET l == linesWithApprovals[i] IN
        ((l.Approver # <<>>) <=> (l.ApprovalTime # Nil)) =>
          /\ l.ApprovalTime # Nil
               => Labelled(blocks, i, AuthorTimeLabel)
                    = << AuthorTimeLabel \o Itoa(UnixOf(l.ApprovalTime[1])) >>
          /\ (l.ApprovalTime = Nil /\ EpochOfDate(l.BlameLine.Date) # Nil)
               => Labelled(blocks, i, AuthorTimeLabel)
                    = << AuthorTimeLabel \o EpochOfDate(l.BlameLine.Date)[1] >>
          /\ (l.ApprovalTime = Nil /\ EpochOfDate(l.BlameLine.Date) = Nil)
               => Labelled(blocks, i, AuthorTimeLabel) = <<>>

\* The first two parts of C20, and the third for the lines whose record in
\* git's output carried the commit's details: with --porcelain those are the
\* first lines of each commit.
PRNumberIffFetchedDetailsWhenCarried ==
    (pc = "done" /\ formatted # Nil /\ formatter[1].Porcelain) =>
      LET blocks == FormattedBlocks IN
      /\ Len(blocks) = Len(linesWithApprovals)
      /\ \A i \in 1..Len(linesWithApprovals) :
           LET c == CallFor(blameLines[i].CommitHash) IN
           /\ c.err = "none"
                => Labelled(blocks, i, PRNumberLabel)
                     = << PRNumberLabel \o Itoa(c.val[1].PR.Number) >>
           /\ c.err # "none" => Labelled(blocks, i, PRNumberLabel) = <<>>
           /\ (c.err = "nopr" /\ blameLines[i].Date # <<>>)
                => /\ Labelled(blocks, i, AuthorLabel)
                        = << AuthorLabel \o AuthorOf(blameLines[i].CommitHash) >>
                   /\ Labelled(blocks, i, AuthorTimeLabel)
                        = << AuthorTimeLabel \o AuthorTimeOf(blameLines[i].CommitHash) >>

\* C20: in the porcelain text of a correlated run, a block holds a pr-number
\* line exactly when the fetch for its commit succeeded, with the PR's
\* number, also when the PR has no approvals; the block of a commit without
\* PR holds the commit author's author, author-mail and author-time lines
\* and no pr-number line.
C20_PRNumberIffFetched ==
    (pc = "done" /\ formatted # Nil /\ formatter[1].Porcelain) =>
      LET blocks == FormattedBlocks IN
      /\ Len(blocks) = Len(linesWithApprovals)
      /\ \A i \in 1..Len(linesWithApprovals) :
           LET c == CallFor(blameLines[i].CommitHash) IN
           /\ c.err = "none"
                => Labelled(blocks, i, PRNumberLabel)
                     = << PRNumberLabel \o Itoa(c.val[1].PR.Number) >>
           /\ c.err # "none" => Labelled(blocks, i, PRNumberLabel) = <<>>
           /\ c.err = "nopr"
                => /\ Labelled(blocks, i, AuthorLabel)
                        = << AuthorLabel \o blameLines[i].Author >>
                   /\ Labelled(blocks, i, AuthorMailLabel)
                        = << AuthorMailLabel \o InAngles(blameLines[i].AuthorEmail) >>
                   /\ EpochOfDate(blameLines[i].Date) # Nil
                   /\ Labelled(blocks, i, AuthorTimeLabel)
                        = << AuthorTimeLabel \o EpochOfDate(blameLines[i].Date)[1] >>

(***************************************************************************)
(* Properties of FormatOutput in both modes.                               *)
(***************************************************************************)
\* The lines of the rendered text, each without its newline; the text ends
\* with a newline unless it is empty.
FormattedLines ==
    LET text == formatted[1]
        fl == LinesFrom(text, {k \in 1..Len(text) : text[k] = "\n"}, 1)
    IN SubSeq(fl, 1, Len(fl) - 1)

EndsWithNewLine(text) == text = <<>> \/ text[Len(text)] = "\n"

\* Rank of a line of a block in the fixed order, 0 for any other line.
KindOf(l) ==
    IF HasPrefix(l, AuthorLabel) THEN 1
    ELSE IF HasPrefix(l, AuthorMailLabel) THEN 2
    ELSE IF HasPrefix(l, AuthorTimeLabel) THEN 3
    ELSE IF HasPrefix(l, PRNumberLabel) THEN 4
    ELSE IF HasPrefix(l, FilenameLabel) THEN 5
    ELSE IF HasPrefix(l, Tab) THEN 6
    ELSE 0

\* The ranks of the lines between the i-th header line and the next one.
KindsOfBlock(fl, sp, i) ==
    LET last == IF i < Len(sp) THEN sp[i + 1] - 1 ELSE Len(fl) IN
    [k \in 1..(last - sp[i]) |-> KindOf(fl[sp[i] + k])]

\* C21: the porcelain text is one block per input line, in input order; a
\* block is the header '<hash> <n> <n> 1' followed by lines in the fixed
\* order author, author-mail, author-time, pr-number, filename, content, of
\* which author, 'filename ' (nothing after the keyword) and the
\* tab-prefixed content are always there.
C21_BlocksInFixedOrder ==
    (formatted # Nil /\ formatter[1].Porcelain) =>
      LET fl == FormattedLines
          sp == StartPositions(fl)
      IN
      /\ EndsWithNewLine(formatted[1])
      /\ Len(sp) = Len(linesWithApprovals)
      /\ \A i \in 1..Len(linesWithApprovals) :
           LET l == linesWithApprovals[i]
               kinds == KindsOfBlock(fl, sp, i)
               n == Itoa(l.BlameLine.LineNumber)
           IN
           /\ i = 1 => sp[i] = 1
           /\ fl[sp[i]] = l.BlameLine.CommitHash \o Sp \o n \o Sp \o n \o <<" ", "1">>
           /\ \A k \in 1..Len(kinds) : kinds[k] \in 1..6
           /\ \A k \in 1..(Len(kinds) - 1) : kinds[k] < kinds[k + 1]
           /\ kinds # <<>>
           /\ kinds[1] = 1
           /\ Len(kinds) >= 3
           /\ kinds[Len(kinds) - 1] = 5
           /\ kinds[Len(kinds)] = 6
           /\ fl[sp[i] + Len(kinds) - 1] = FilenameLabel
           /\ fl[sp[i] + Len(kinds)] = Tab \o l.BlameLine.Content

\* C21 witness: two blocks, the first with all six lines after its header,
\* the second without author-mail and author-time lines.
C21_Witness ==
    /\ formatted # Nil
    /\ formatter[1].Porcelain
    /\ Len(linesWithApprovals) = 2
    /\ LET fl == FormattedLines
           sp == StartPositions(fl)
       IN /\ Len(sp) = 2
          /\ KindsOfBlock(fl, sp, 1) = <<1, 2, 3, 4, 5, 6>>
          /\ KindsOfBlock(fl, sp, 2) = <<1, 4, 5, 6>>

\* The identity the human-readable row of a line is to show.
ShownIdentity(f, l) ==
    IF l.Approver # <<>> /\ f.ShowEmail /\ l.ApproverEmail # <<>> THEN l.ApproverEmail
    ELSE IF l.Approver # <<>> THEN l.Approver
    ELSE IF f.ShowEmail /\ l.BlameLine.AuthorEmail # <<>> THEN l.BlameLine.AuthorEmail
    ELSE l.BlameLine.Author

\* Width of the identity column: the longest identity to show.
IdentityWidth(f, lines) ==
    MaxOf({0} \cup {Len(ShownIdentity(f, lines[i])) : i \in 1..Len(lines)})

\* The position of the last byte of the k runes of s that start at i.
RECURSIVE RunesEnd(_, _, _)
RunesEnd(s, i, k) ==
    IF k = 0 \/ i > Len(s) THEN i - 1
    ELSE RunesEnd(s, i + RuneWidthAt(s, i), k - 1)

\* The identity column of a row: the width characters that follow the short
\* hash and " (", without the blanks that fill the column.
IdentityEnd(row, width) == RunesEnd(row, 11, width)

IdentityColumn(row, width) == TrimRight(SubSeq(row, 11, IdentityEnd(row, width)))

HumanRendered == formatted # Nil /\ ~formatter[1].Porcelain

\* C22: in human mode the identity column of a row holds the approver's
\* email if the line has an approver, ShowEmail is set and that email is
\* non-empty; else the approver's name if the line has an approver; else the
\* author's email if ShowEmail is set and that email is non-empty; else the
\* author's name.  With an approver, neither the author's name nor the
\* author's email is in the column.
C22_IdentityApproverFirst ==
    HumanRendered =>
      LET fl == FormattedLines
          f == formatter[1]
          w == IdentityWidth(f, linesWithApprovals)
      IN
      /\ Len(fl) = Len(linesWithApprovals)
      /\ \A i \in 1..Len(linesWithApprovals) :
           LET l == linesWithApprovals[i] IN
           /\ SubSeq(fl[i], 1, 10) = SubSeq(l.BlameLine.CommitHash, 1, 8) \o <<" ", "(">>
           /\ IdentityColumn(fl[i], w) = ShownIdentity(f, l)
           /\ fl[i][IdentityEnd(fl[i], w) + 1] = " "
           /\ l.Approver # <<>>
                => /\ IdentityColumn(fl[i], w) \in {l.Approver, l.ApproverEmail}
                   /\ IdentityColumn(fl[i], w)
                        \notin {l.BlameLine.Author, l.BlameLine.AuthorEmail}

\* A name of four characters in five bytes, alone: the column is five
\* characters wide, so the name is followed by two blanks.
ByteWidthShown ==
    /\ HumanRendered
    /\ local = <<"UTC">>
    /\ Len(linesWithApprovals) = 1
    /\ linesWithApprovals[1].BlameLine.Author = Jose
    /\ FormattedLines[1]
         = Repeat("a", 8) \o <<" ", "(">> \o Jose
           \o <<" ", " ", "2", "0", "2", "1", "-", "0", "7", "-", "0", "1", " ",
                "0", "0", ":", "0", "0", ":", "0", "0", " ", "1", ")", " ", "z">>

\* C22 witness: with ShowEmail set, a row showing the approver's email next
\* to a row showing the name of an author who has no email.
C22_Witness ==
    /\ HumanRendered
    /\ formatter[1].ShowEmail
    /\ Len(linesWithApprovals) = 2
    /\ linesWithApprovals[1].Approver = Alice
    /\ linesWithApprovals[1].BlameLine.AuthorEmail # <<>>
    /\ linesWithApprovals[2].Approver = <<>>
    /\ linesWithApprovals[2].BlameLine.AuthorEmail = <<>>
    /\ IdentityColumn(FormattedLines[1], Len(AliceMail)) = AliceMail
    /\ IdentityColumn(FormattedLines[2], Len(AliceMail)) = <<"B", "e", "n">>

\* Seconds from 1970-01-01 00:00:00 to the civil time a text of the shape
\* YYYY-MM-DD HH:MM:SS names.
SecondsOfCivil(d) ==
    LET y0 == DigitsToInt(SubSeq(d, 1, 4))
        mon == DigitsToInt(SubSeq(d, 6, 7))
        day == DigitsToInt(SubSeq(d, 9, 10))
        y == IF mon <= 2 THEN y0 - 1 ELSE y0
        era == y \div 400
        yoe == y - era * 400
        doy == (153 * (IF mon > 2 THEN mon - 3 ELSE mon + 9) + 2) \div 5 + day - 1
        doe == yoe * 365 + yoe \div 4 - yoe \div 100 + doy
    IN (era * 146097 + doe - 719468) * 86400
       + DigitsToInt(SubSeq(d, 12, 13)) * 3600
       + DigitsToInt(SubSeq(d, 15, 16)) * 60
       + DigitsToInt(SubSeq(d, 18, 19))

\* d has the shape YYYY-MM-DD HH:MM:SS, with fields in their ranges.
IsCivilLayout(d) ==
    /\ Len(d) = 19
    /\ \A k \in 1..19 :
         IF k \in {5, 8} THEN d[k] = "-"
         ELSE IF k = 11 THEN d[k] = " "
         ELSE IF k \in {14, 17} THEN d[k] = ":"
         ELSE IsDigit(d[k])
    /\ DigitsToInt(SubSeq(d, 6, 7)) \in 1..12
    /\ DigitsToInt(SubSeq(d, 9, 10)) \in 1..31
    /\ DigitsToInt(SubSeq(d, 12, 13)) \in 0..23
    /\ DigitsToInt(SubSeq(d, 15, 16)) \in 0..59
    /\ DigitsToInt(SubSeq(d, 18, 19)) \in 0..59

\* d is the instant sec, shown in a zone loc seconds east of UTC.
ShowsInstant(d, sec, loc) == IsCivilLayout(d) /\ SecondsOfCivil(d) = sec + loc

\* Seconds east of UTC of the clocks of a time zone at an instant of the
\* rendered lines: summer time on 2021-07-01, standard time on the others.
ClockOffset(zone, sec) ==
    LET summer == sec = 1625097600 IN
    IF zone = "Europe/Paris" THEN (IF summer THEN 2 ELSE 1) * 3600
    ELSE IF zone = "America/New_York" THEN (IF summer THEN -4 ELSE -5) * 3600
    ELSE 0

\* The offset a time is shown at: that of its own Location, which for a time
\* in time.Local is the offset of the process's time zone at that instant.
ShownOffset(t) ==
    IF t.loc.name = "UTC" THEN 0
    ELSE IF t.loc.name = "Local" THEN ClockOffset(local[1], t.unix)
    ELSE t.loc.offset

\* The epoch a commit timestamp string stands for, Nil when it is no integer.
CommitEpoch(date) ==
    IF date = <<"1", "7">> THEN <<17>>
    ELSE IF date = NewYear2021 THEN <<1609459200>>
    ELSE IF date = <<"+", "0", "7">> THEN <<7>>
    ELSE IF date = July2021 THEN <<1625097600>>
    ELSE Nil

\* The row from its date column on.
FromDateColumn(row, width) == SubSeq(row, IdentityEnd(row, width) + 2, Len(row))

\* C23: in human mode the date column of a row holds the approval time as
\* YYYY-MM-DD HH:MM:SS when the line has one; otherwise the commit timestamp
\* in the same layout when its string is an integer epoch; otherwise the
\* stored string as it is.
C23_DateApprovalFirst ==
    HumanRendered =>
      LET fl == FormattedLines
          w == IdentityWidth(formatter[1], linesWithApprovals)
      IN
      \A i \in 1..Len(linesWithApprovals) :
        LET l == linesWithApprovals[i]
            rest == FromDateColumn(fl[i], w)
        IN
        /\ l.ApprovalTime # Nil
             => /\ l.ApprovalTime[1].loc = Local => local # Nil
                /\ ShowsInstant(SubSeq(rest, 1, 19), l.ApprovalTime[1].unix,
                                ShownOffset(l.ApprovalTime[1]))
                /\ rest[20] = " "
        /\ (l.ApprovalTime = Nil /\ CommitEpoch(l.BlameLine.Date) # Nil)
             => /\ local # Nil
                /\ ShowsInstant(SubSeq(rest, 1, 19), CommitEpoch(l.BlameLine.Date)[1],
                                ClockOffset(local[1], CommitEpoch(l.BlameLine.Date)[1]))
                /\ rest[20] = " "
        /\ (l.ApprovalTime = Nil /\ CommitEpoch(l.BlameLine.Date) = Nil)
             => HasPrefix(rest, l.BlameLine.Date \o Sp)

\* C23 witness: in New York, a row with the approval time 2021-01-03
\* 00:00:00 UTC above a row with the commit timestamp 17.
C23_Witness ==
    /\ HumanRendered
    /\ local = <<"America/New_York">>
    /\ Len(linesWithApprovals) = 2
    /\ linesWithApprovals[1].ApprovalTime = <<TimeIn(1609632000, UTC)>>
    /\ linesWithApprovals[2].ApprovalTime = Nil
    /\ linesWithApprovals[2].BlameLine.Date = <<"1", "7">>
    /\ LET w == IdentityWidth(formatter[1], linesWithApprovals) IN
       /\ HasPrefix(FromDateColumn(FormattedLines[1], w),
                    <<"2", "0", "2", "1", "-", "0", "1", "-", "0", "3", " ", "0", "0", ":", "0", "0", ":", "0", "0">>)
       /\ HasPrefix(FromDateColumn(FormattedLines[2], w),
                    <<"1", "9", "6", "9", "-", "1", "2", "-", "3", "1", " ", "1", "9", ":", "0", "0", ":", "1", "7">>)

\* In Paris, a commit of January above a commit of July: the first row at
\* +01:00, the second at +02:00.
SummerTimeShown ==
    /\ HumanRendered
    /\ local = <<"Europe/Paris">>
    /\ Len(linesWithApprovals) = 2
    /\ linesWithApprovals[1] = FormatLineOf(BenAtNewYear, NoApproval, 1)
    /\ linesWithApprovals[2].BlameLine.Date = July2021
    /\ linesWithApprovals[2].ApprovalTime = Nil
    /\ LET w == IdentityWidth(formatter[1], linesWithApprovals) IN
       /\ HasPrefix(FromDateColumn(FormattedLines[1], w),
                    <<"2", "0", "2", "1", "-", "0", "1", "-", "0", "1", " ", "0", "1", ":", "0", "0", ":", "0", "0">>)
       /\ HasPrefix(FromDateColumn(FormattedLines[2], w),
                    <<"2", "0", "2", "1", "-", "0", "7", "-", "0", "1", " ", "0", "2", ":", "0", "0", ":", "0", "0">>)

\* A row whose commit timestamp is no integer shows the stored string.
RawDateShown ==
    /\ HumanRendered
    /\ \E i \in 1..Len(linesWithApprovals) :
         /\ linesWithApprovals[i].ApprovalTime = Nil
         /\ linesWithApprovals[i].BlameLine.Date = <<"1", "x">>
         /\ HasPrefix(FromDateColumn(FormattedLines[i],
                                     IdentityWidth(formatter[1], linesWithApprovals)),
                      <<"1", "x", " ">>)

\* Length of the date column of a line.
DateWidth(l) ==
    IF l.ApprovalTime # Nil \/ CommitEpoch(l.BlameLine.Date) # Nil THEN 19
    ELSE Len(l.BlameLine.Date)

\* The row from its line-number field on.
FromLineNumber(row, width, l) ==
    SubSeq(row, IdentityEnd(row, width) + 3 + DateWidth(l), Len(row))

\* Decimal digits of the largest line number of the set.
LargestLineNumberWidth(lines) ==
    Len(Itoa(MaxOf({lines[i].BlameLine.LineNumber : i \in 1..Len(lines)})))

\* Every row has its line number right-aligned in a field of numWidth
\* characters, closed by ") ".
LineNumbersAligned(fl, lines, width, numWidth) ==
    \A i \in 1..Len(lines) :
      LET rest == FromLineNumber(fl[i], width, lines[i]) IN
      /\ SubSeq(rest, 1, numWidth)
           = PadLeft(Itoa(lines[i].BlameLine.LineNumber), numWidth, " ")
      /\ SubSeq(rest, numWidth + 1, numWidth + 2) = <<")", " ">>

\* C24: in human mode the line number of every row is right-aligned in a
\* field as wide as the decimal digits of the largest LineNumber of the
\* rendered set, so the fields of all rows are equally wide, whatever the
\* line numbers are.
C24_LineNumberColumn ==
    (HumanRendered /\ linesWithApprovals # <<>>) =>
      LineNumbersAligned(FormattedLines, linesWithApprovals,
                         IdentityWidth(formatter[1], linesWithApprovals),
                         LargestLineNumberWidth(linesWithApprovals))

\* The same for the lines numbered 1..N, as parseGitBlameOutput numbers them.
LineNumberColumnWhenFromOne ==
    (HumanRendered /\ linesWithApprovals # <<>>
       /\ \A i \in 1..Len(linesWithApprovals) :
            linesWithApprovals[i].BlameLine.LineNumber = i) =>
      LineNumbersAligned(FormattedLines, linesWithApprovals,
                         IdentityWidth(formatter[1], linesWithApprovals),
                         LargestLineNumberWidth(linesWithApprovals))

\* Two rows numbered 1 and 2 have been rendered.
LineNumberColumnReached ==
    /\ HumanRendered
    /\ Len(linesWithApprovals) = 2
    /\ linesWithApprovals[2].BlameLine.LineNumber = 2
    /\ LineNumbersAligned(FormattedLines, linesWithApprovals,
                          IdentityWidth(formatter[1], linesWithApprovals), 1)

\* The text is porcelain blocks, one per line: it starts with a header line
\* and has as many header lines as there are lines.
IsPorcelainText(fl, lines) ==
    /\ Len(StartPositions(fl)) = Len(lines)
    /\ fl # <<>>
    /\ RecordStartLine(fl[1])
    /\ \A i \in 1..Len(lines) :
         KindsOfBlock(fl, StartPositions(fl), i) # <<>>

\* The text is human-readable rows, one per line: eight characters of the
\* hash, then " (".
IsHumanText(fl, lines) ==
    /\ Len(fl) = Len(lines)
    /\ \A i \in 1..Len(fl) :
         /\ SubSeq(fl[i], 1, 8) = SubSeq(lines[i].BlameLine.CommitHash, 1, 8)
         /\ SubSeq(fl[i], 9, 10) = <<" ", "(">>

\* C25: FormatOutput returns the empty string for no lines, whatever the
\* mode; for one line or more it returns the porcelain blocks when the
\* Porcelain flag is set and the human-readable rows when it is not, never
\* the other format.
C25_ModeByPorcelainFlag ==
    formatted # Nil =>
      LET fl == FormattedLines IN
      /\ linesWithApprovals = <<>> => formatted[1] = <<>>
      /\ (linesWithApprovals # <<>> /\ formatter[1].Porcelain)
           => /\ IsPorcelainText(fl, linesWithApprovals)
              /\ ~IsHumanText(fl, linesWithApprovals)
      /\ (linesWithApprovals # <<>> /\ ~formatter[1].Porcelain)
           => /\ IsHumanText(fl, linesWithApprovals)
              /\ ~IsPorcelainText(fl, linesWithApprovals)

\* C25 witness: two lines rendered as rows by a formatter without the
\* Porcelain flag.
C25_Witness ==
    /\ formatted # Nil
    /\ ~formatter[1].Porcelain
    /\ Len(linesWithApprovals) = 2
    /\ IsHumanText(FormattedLines, linesWithApprovals)
    /\ formatted[1] # formatPorcelain(linesWithApprovals)

\* No lines rendered to the empty string, in either mode.
EmptyRendered ==
    /\ formatted = <<Nil>>
    /\ linesWithApprovals = <<>>

(***************************************************************************)
(* Properties of one GetPRApprovalInfo call.                               *)
(***************************************************************************)
\* The exchange did not succeed: no response, a status other than 200, or a
\* body that could not be read or decoded.
FailedExchange(x) == x.fail # "none" \/ x.status # 200

RequestsTo(reqs, endpoint) == SelectSeq(reqs, LAMBDA r : r.endpoint = endpoint)

\* C26: one GetPRApprovalInfo call, of either client, issues at most one
\* commit-to-PR request and at most one approvals request, the latter only
\* after the former returned a PR; when a request fails (no response or a
\* status other than 200) the call returns an error and no ApprovalInfo,
\* and that request is the last one it issued.
C26_NoRetry ==
    (clientCall # Nil /\ clientCall[1].method = "GetPRApprovalInfo") =>
      LET c == clientCall[1]
          reqs == c.res.requests
          approvals == RequestsTo(reqs, "approvals")
      IN
      /\ Len(RequestsTo(reqs, "commit")) <= 1
      /\ Len(approvals) <= 1
      /\ Len(reqs) = Len(RequestsTo(reqs, "commit")) + Len(approvals)
      /\ approvals # <<>>
           => /\ reqs[1].endpoint = "commit"
              /\ reqs[2].endpoint = "approvals"
              /\ ~FailedExchange(c.commitX[1])
              /\ c.commitX[1].body # <<>>
      /\ (approvals # <<>>) <=> (c.approvalsX # Nil)
      /\ FailedExchange(c.commitX[1])
           => /\ c.res.err # "none"
              /\ c.res.val = Nil
              /\ Len(reqs) = 1
      /\ (c.approvalsX # Nil /\ FailedExchange(c.approvalsX[1]))
           => /\ c.res.err # "none"
              /\ c.res.val = Nil
              /\ Len(reqs) = 2

\* C26 witness: a GitLab call whose commit request returned a merge request
\* and whose approvals request was answered with status 500.
C26_Witness ==
    /\ clientCall # Nil
    /\ client[1].val[1].kind = "GitLab"
    /\ clientCall[1].method = "GetPRApprovalInfo"
    /\ ~FailedExchange(clientCall[1].commitX[1])
    /\ clientCall[1].approvalsX # Nil
    /\ clientCall[1].approvalsX[1].status = 500
    /\ clientCall[1].res.err = "api"
    /\ Len(clientCall[1].res.requests) = 2

(***************************************************************************)
(* Properties of one invocation of runGitReviewBlame.                      *)
(***************************************************************************)
Returned(r) == r # Nil
Succeeded(r) == r # Nil /\ r[1].err = "none"
Failed(r) == r # Nil /\ r[1].err # "none"

\* C27: the steps of an invocation run in the order root lookup, remote
\* resolution, blame, client creation, correlation, format and print: no
\* step has run unless the one before it succeeded.  A failure of one of the
\* first four steps ends the invocation, with no GetPRApprovalInfo call
\* issued and nothing printed; the output is printed once, after the last
\* line has been correlated.
C27_StepsInOrder ==
    /\ Returned(resolved) => Succeeded(gitRoot)
    /\ Returned(parsed) => Succeeded(resolved)
    /\ Returned(client) => Succeeded(parsed)
    /\ (fetchCalls # <<>> \/ linesWithApprovals # <<>> \/ pc \in {"correlate", "done"})
         => Succeeded(client)
    /\ (formatter # Nil \/ formatted # Nil \/ stdout # <<>>)
         => /\ pc = "done"
            /\ Len(linesWithApprovals) = Len(blameLines)
            /\ \A i \in 1..Len(blameLines) :
                 linesWithApprovals[i].BlameLine = blameLines[i]
    /\ (Failed(gitRoot) \/ Failed(resolved) \/ Failed(parsed) \/ Failed(client))
         <=> pc = "failed"
    /\ pc = "failed" => fetchCalls = <<>> /\ stdout = <<>> /\ formatted = Nil
    /\ Len(stdout) <= 1
    /\ pc = "done" => stdout = <<formatted[1]>>

\* C27 witness: an invocation that went through all six steps on a file of
\* two lines of two commits, and printed its rows.
C27_Witness ==
    /\ pc = "done"
    /\ Succeeded(gitRoot) /\ Succeeded(resolved) /\ Succeeded(parsed) /\ Succeeded(client)
    /\ Len(blameLines) = 2
    /\ Len(fetchCalls) = 2
    /\ stdout = <<formatted[1]>>
    /\ stdout[1] # <<>>

\* An invocation that ended at client creation, for want of a token, after
\* the blame had succeeded.
FailedAtClientCreation ==
    /\ pc = "failed"
    /\ Succeeded(parsed)
    /\ blameLines # <<>>
    /\ Failed(client)
    /\ client[1].err = ErrMissingGitLabToken

(***************************************************************************)
(* Properties of the records of parseGitBlameOutput.                       *)
(***************************************************************************)
\* The record is 40 hexadecimal characters, the first 40 of its start line.
HashOfStartLine(record, startLine) ==
    /\ Len(record.CommitHash) = 40
    /\ \A k \in 1..Len(record.CommitHash) : record.CommitHash[k] \in HexDigits
    /\ record.CommitHash = SubSeq(startLine, 1, 40)

\* C28: every record parseGitBlameOutput returns has a CommitHash of exactly
\* 40 hexadecimal characters, the first 40 characters of its record-start
\* line, also when the first token of that line is longer than 40
\* characters.
C28_CommitHashIs40Hex ==
    parsed # Nil =>
      LET src == SourceLines(blameText[1])
          sp == StartPositions(src)
      IN \A i \in 1..Len(parsed[1].lines) :
           i <= Len(sp) => HashOfStartLine(parsed[1].lines[i], src[sp[i]])

\* The same for the record-start lines whose hash is followed by white space
\* or by nothing.
CommitHashWhenTokenIs40 ==
    parsed # Nil =>
      LET src == SourceLines(blameText[1])
          sp == StartPositions(src)
      IN \A i \in 1..Len(parsed[1].lines) :
           (i <= Len(sp) /\ (Len(src[sp[i]]) = 40 \/ SpaceWidthAt(src[sp[i]], 41) > 0))
             => HashOfStartLine(parsed[1].lines[i], src[sp[i]])

\* Two records parsed, of a start line with line numbers and of a bare hash.
CommitHashWhenTokenIs40Reached ==
    /\ parsed # Nil
    /\ SourceLines(blameText[1]) = <<HeaderA, Tab, HashB>>
    /\ Len(parsed[1].lines) = 2
    /\ parsed[1].lines[1].CommitHash = HashA
    /\ parsed[1].lines[2].CommitHash = HashB

(***************************************************************************)
(* Properties of the annotations at the end of a correlation run.          *)
(***************************************************************************)
SameAnnotation(a, b) ==
    /\ a.PRNumber = b.PRNumber
    /\ a.Approver = b.Approver
    /\ a.ApproverEmail = b.ApproverEmail
    /\ a.ApprovalTime = b.ApprovalTime

\* C29: at the end of a correlation run any two annotated lines of the same
\* commit have the same PR number, approver name, approver email and
\* approval time, the line that caused the fetch and the lines served from
\* the cache alike; and a line has an approver or an approval time only if
\* the fetch for its commit succeeded.
C29_SameCommitSameAnnotation ==
    pc = "done" =>
      /\ \A i, j \in 1..Len(linesWithApprovals) :
           linesWithApprovals[i].BlameLine.CommitHash
               = linesWithApprovals[j].BlameLine.CommitHash
             => SameAnnotation(linesWithApprovals[i], linesWithApprovals[j])
      /\ \A i \in 1..Len(linesWithApprovals) :
           (linesWithApprovals[i].Approver # <<>>
              \/ linesWithApprovals[i].ApprovalTime # Nil)
             => CallFor(linesWithApprovals[i].BlameLine.CommitHash).err = "none"

\* C29 witness: a finished run whose first and third line are of one commit,
\* fetched at line 1 and approved by alice, with a failed fetch in between.
C29_Witness ==
    /\ pc = "done"
    /\ Len(linesWithApprovals) = 3
    /\ blameLines[1].CommitHash = blameLines[3].CommitHash
    /\ blameLines[2].CommitHash # blameLines[1].CommitHash
    /\ Len(fetchCalls) = 2
    /\ fetchCalls[2].err # "none"
    /\ linesWithApprovals[1].Approver = Alice
    /\ linesWithApprovals[3].Approver = Alice
    /\ linesWithApprovals[3].ApprovalTime = <<TimeIn(100, UTC)>>

(***************************************************************************)
(* Properties of parsing the porcelain rendering.                          *)
(***************************************************************************)
\* The name the renderer puts on the author line.
RenderedName(l) == IF l.Approver # <<>> THEN l.Approver ELSE l.BlameLine.Author

\* The records are the lines again: hash, line number, content and name.
RecordsOfLines(records, lines) ==
    /\ Len(records) = Len(lines)
    /\ \A i \in 1..Len(lines) :
         i <= Len(records) =>
           /\ records[i].CommitHash = lines[i].BlameLine.CommitHash
           /\ records[i].LineNumber = lines[i].BlameLine.LineNumber
           /\ records[i].Content = lines[i].BlameLine.Content
           /\ records[i].Author = RenderedName(lines[i])

\* The lines are as the round trip takes them: hashes of 40 hexadecimal
\* characters, line numbers 1..N in order, contents without a line break.
RoundTripInput(lines) ==
    \A i \in 1..Len(lines) :
      /\ Len(lines[i].BlameLine.CommitHash) = 40
      /\ \A k \in 1..40 : lines[i].BlameLine.CommitHash[k] \in HexDigits
      /\ lines[i].BlameLine.LineNumber = i
      /\ \A k \in 1..Len(lines[i].BlameLine.Content) :
           lines[i].BlameLine.Content[k] \notin {"\n", "\r"}

\* C30: for N annotated lines with hashes of 40 hexadecimal characters, line
\* numbers 1..N and contents without a line break, parseGitBlameOutput of
\* the porcelain rendering yields N records with the same hashes, line
\* numbers and contents in the same order, the author of each being the
\* name the renderer used: the approver if there is one, else the author.
C30_PorcelainRoundTrip ==
    (parsed # Nil /\ RoundTripInput(AnnotatedOf(blameText[1].annotated)))
      => RecordsOfLines(parsed[1].lines, AnnotatedOf(blameText[1].annotated))

\* The same for the renderings the Scanner reads to the end.
RoundTripWhenScanned ==
    (parsed # Nil /\ RoundTripInput(AnnotatedOf(blameText[1].annotated))
       /\ parsed[1].err = "none")
      => RecordsOfLines(parsed[1].lines, AnnotatedOf(blameText[1].annotated))

\* Two lines read back, the first under an approver's name, the second
\* with an empty content.
RoundTripReached ==
    /\ parsed # Nil
    /\ parsed[1].err = "none"
    /\ Len(blameText[1].annotated) = 2
    /\ blameText[1].annotated[1].line.Approver = Alice
    /\ blameText[1].annotated[2].line.BlameLine.Content = <<>>
    /\ parsed[1].lines[1].Author = Alice
    /\ parsed[1].lines[2].Content = <<>>
    /\ parsed[1].lines[2].LineNumber = 2

====
